---- MODULE Spec2Model ----
(***************************************************************************)
(* Model of the multi-provider LLM client of obsidian-llm-test             *)
(* (src/src/services/llm.ts): the two orchestrators generateTestQuestions  *)
(* and markTestAnswers, the six provider adapters, and the two response    *)
(* parsers.                                                                *)
(*                                                                         *)
(* A JavaScript string is modelled as a sequence of one-character strings, *)
(* so that slice, trim, startsWith, endsWith, lastIndexOf, includes and    *)
(* the regular expressions of the source act on characters as they do in   *)
(* the program.                                                            *)
(***************************************************************************)
EXTENDS Integers, Sequences, FiniteSets, TLC

(***************************************************************************)
(* String primitives (ECMAScript String.prototype).                        *)
(***************************************************************************)

\* White space as String.prototype.trim and the regex class \s see it.
IsSpace(c) == c \in {" ", "\n", "\t"}

\* The regex class \d.
IsDigit(c) == c \in {"0", "1", "2", "3", "4", "5", "6", "7", "8", "9"}

\* The regex class [a-z].
IsLower(c) == c \in {"a", "b", "c", "d", "e", "f", "g", "h", "i", "j", "k", "l", "m",
                     "n", "o", "p", "q", "r", "s", "t", "u", "v", "w", "x", "y", "z"}

\* s.slice(from) with a 0-based non-negative from.
SliceFrom(s, from) == SubSeq(s, from + 1, Len(s))

\* s.slice(0, end) with a 0-based end; a negative end counts from the back.
SliceTo(s, end) ==
  LET e == IF end < 0 THEN Len(s) + end ELSE end
  IN  IF e <= 0 THEN << >> ELSE SubSeq(s, 1, IF e > Len(s) THEN Len(s) ELSE e)

StartsWith(s, p) == Len(p) <= Len(s) /\ SubSeq(s, 1, Len(p)) = p

EndsWith(s, p) == Len(p) <= Len(s) /\ SubSeq(s, Len(s) - Len(p) + 1, Len(s)) = p

\* s.includes(p)
Includes(s, p) ==
  \E i \in 1..(Len(s) - Len(p) + 1) : SubSeq(s, i, i + Len(p) - 1) = p

\* s.lastIndexOf(c) for a one-character c: 0-based, -1 when absent.
LastIndexOf(s, c) ==
  IF \E i \in 1..Len(s) : s[i] = c
  THEN (CHOOSE i \in 1..Len(s) : s[i] = c /\ \A j \in (i + 1)..Len(s) : s[j] # c) - 1
  ELSE -1

\* s.trim()
Trim(s) ==
  IF \A i \in 1..Len(s) : IsSpace(s[i])
  THEN << >>
  ELSE LET a == CHOOSE i \in 1..Len(s) : ~IsSpace(s[i]) /\ \A j \in 1..(i - 1) : IsSpace(s[j])
           b == CHOOSE i \in 1..Len(s) : ~IsSpace(s[i]) /\ \A j \in (i + 1)..Len(s) : IsSpace(s[j])
       IN  SubSeq(s, a, b)

(***************************************************************************)
(* JSON.parse, for the JSON grammar over the characters the inputs use:    *)
(* objects, arrays, strings without escapes, unsigned integers and the     *)
(* three literals.  A value is a record [t, v] tagged by its JSON type; an *)
(* object is the sequence of its members in insertion order.               *)
(***************************************************************************)

JNull == [t |-> "null", v |-> << >>]

PFail == [ok |-> FALSE, val |-> JNull, pos |-> 0]

POk(val, pos) == [ok |-> TRUE, val |-> val, pos |-> pos]

\* First index at or after i that holds no JSON white space (Len(s)+1 if none).
RECURSIVE SkipWs(_, _)
SkipWs(s, i) ==
  IF i <= Len(s) /\ IsSpace(s[i]) THEN SkipWs(s, i + 1) ELSE i

\* End of the run of digits that starts at i.
RECURSIVE DigitsEnd(_, _)
DigitsEnd(s, i) ==
  IF i <= Len(s) /\ IsDigit(s[i]) THEN DigitsEnd(s, i + 1) ELSE i

DigitVal(c) ==
  CASE c = "0" -> 0 [] c = "1" -> 1 [] c = "2" -> 2 [] c = "3" -> 3 [] c = "4" -> 4
    [] c = "5" -> 5 [] c = "6" -> 6 [] c = "7" -> 7 [] c = "8" -> 8 [] c = "9" -> 9

RECURSIVE NumVal(_)
NumVal(ds) ==
  IF ds = << >> THEN 0
  ELSE 10 * NumVal(SubSeq(ds, 1, Len(ds) - 1)) + DigitVal(ds[Len(ds)])

\* A number starting at i: digits, no leading zero before another digit.
JNumber(s, i) ==
  LET e == DigitsEnd(s, i)
  IN  IF s[i] = "0" /\ e > i + 1 THEN PFail
      ELSE POk([t |-> "num", v |-> NumVal(SubSeq(s, i, e - 1))], e)

\* A string whose opening quote is at i - 1: up to the next quote; a raw
\* line break or tab inside a string is a syntax error.
JString(s, i) ==
  IF ~\E k \in i..Len(s) : s[k] = "\"" THEN PFail
  ELSE LET k == CHOOSE k \in i..Len(s) : s[k] = "\"" /\ \A j \in i..(k - 1) : s[j] # "\""
       IN  IF \E j \in i..(k - 1) : s[j] \in {"\n", "\t"} THEN PFail
           ELSE POk([t |-> "str", v |-> SubSeq(s, i, k - 1)], k + 1)

JLiteral(s, i, word, val) ==
  IF i + Len(word) - 1 <= Len(s) /\ SubSeq(s, i, i + Len(word) - 1) = word
  THEN POk(val, i + Len(word))
  ELSE PFail

\* obj[key] = val on the member sequence: a repeated key keeps its place
\* and takes the later value.
SetMember(ms, key, val) ==
  IF \E n \in 1..Len(ms) : ms[n].k = key
  THEN [n \in 1..Len(ms) |-> IF ms[n].k = key THEN [k |-> key, v |-> val] ELSE ms[n]]
  ELSE Append(ms, [k |-> key, v |-> val])

RECURSIVE JValue(_, _)
RECURSIVE JMembers(_, _, _)
RECURSIVE JElements(_, _, _)

\* The members of an object, the first of which starts at or after i.
JMembers(s, i, acc) ==
  LET a == SkipWs(s, i)
  IN  IF a > Len(s) \/ s[a] # "\"" THEN PFail
      ELSE LET key == JString(s, a + 1)
           IN  IF ~key.ok THEN PFail
               ELSE LET c == SkipWs(s, key.pos)
                    IN  IF c > Len(s) \/ s[c] # ":" THEN PFail
                        ELSE LET val == JValue(s, c + 1)
                             IN  IF ~val.ok THEN PFail
                                 ELSE LET d == SkipWs(s, val.pos)
                                          ms == SetMember(acc, key.val.v, val.val)
                                      IN  IF d > Len(s) THEN PFail
                                          ELSE IF s[d] = "," THEN JMembers(s, d + 1, ms)
                                          ELSE IF s[d] = "}" THEN POk([t |-> "obj", v |-> ms], d + 1)
                                          ELSE PFail

\* The elements of an array, the first of which starts at or after i.
JElements(s, i, acc) ==
  LET val == JValue(s, i)
  IN  IF ~val.ok THEN PFail
      ELSE LET d == SkipWs(s, val.pos)
               es == Append(acc, val.val)
           IN  IF d > Len(s) THEN PFail
               ELSE IF s[d] = "," THEN JElements(s, d + 1, es)
               ELSE IF s[d] = "]" THEN POk([t |-> "arr", v |-> es], d + 1)
               ELSE PFail

JValue(s, i) ==
  LET a == SkipWs(s, i)
  IN  IF a > Len(s) THEN PFail
      ELSE IF s[a] = "{"
           THEN LET b == SkipWs(s, a + 1)
                IN  IF b <= Len(s) /\ s[b] = "}"
                    THEN POk([t |-> "obj", v |-> << >>], b + 1)
                    ELSE JMembers(s, a + 1, << >>)
      ELSE IF s[a] = "["
           THEN LET b == SkipWs(s, a + 1)
                IN  IF b <= Len(s) /\ s[b] = "]"
                    THEN POk([t |-> "arr", v |-> << >>], b + 1)
                    ELSE JElements(s, a + 1, << >>)
      ELSE IF s[a] = "\"" THEN JString(s, a + 1)
      ELSE IF IsDigit(s[a]) THEN JNumber(s, a)
      ELSE IF s[a] = "t" THEN JLiteral(s, a, <<"t", "r", "u", "e">>, [t |-> "bool", v |-> <<"t">>])
      ELSE IF s[a] = "f" THEN JLiteral(s, a, <<"f", "a", "l", "s", "e">>, [t |-> "bool", v |-> <<"f">>])
      ELSE IF s[a] = "n" THEN JLiteral(s, a, <<"n", "u", "l", "l">>, JNull)
      ELSE PFail

\* JSON.parse(text): one value, then nothing but white space.  ok = FALSE
\* stands for the SyntaxError JSON.parse throws.
JSONparse(text) ==
  LET r == JValue(text, 1)
  IN  IF r.ok /\ SkipWs(text, r.pos) > Len(text) THEN [ok |-> TRUE, val |-> r.val]
      ELSE [ok |-> FALSE, val |-> JNull]

(***************************************************************************)
(* Errors and results.  An error is the class of the thrown object and its *)
(* message; a result is either a returned value or a thrown error.         *)
(***************************************************************************)

\* new Error(msg)
Error(msg) == [cls |-> "Error", msg |-> msg]

\* new ContextLengthExceededError(message)
ContextLengthExceededError(message) == [cls |-> "ContextLengthExceededError", msg |-> message]

NoError == [cls |-> "none", msg |-> << >>]

Return(val) == [tag |-> "ok", val |-> val, err |-> NoError]

Throw(err) == [tag |-> "err", val |-> JNull, err |-> err]

(***************************************************************************)
(* The string literals of llm.ts.                                          *)
(***************************************************************************)

\* The grave accent (U+0060); a TLA+ string cannot hold the character itself.
BT == "GRAVE"

\* The 7 characters of the json code-fence marker: three BT, then 'json'.
FenceJson == <<BT, BT, BT, "j", "s", "o", "n">>

\* The 3 characters of the code-fence marker.
Fence == <<BT, BT, BT>>

\* 'No content from LLM for test questions.'
MsgNoContent ==
  <<"N","o"," ","c","o","n","t","e","n","t"," ","f","r","o","m"," ","L","L","M"," ","f","o","r",
    " ","t","e","s","t"," ","q","u","e","s","t","i","o","n","s",".">>

\* 'Failed to parse JSON response for test questions'
MsgParseQuestionsFailed ==
  <<"F","a","i","l","e","d"," ","t","o"," ","p","a","r","s","e"," ","J","S","O","N"," ","r","e",
    "s","p","o","n","s","e"," ","f","o","r"," ","t","e","s","t"," ","q","u","e","s","t","i","o",
    "n","s">>

\* 'No marking feedback returned by LLM.'
MsgNoFeedback ==
  <<"N","o"," ","m","a","r","k","i","n","g"," ","f","e","e","d","b","a","c","k"," ","r","e","t",
    "u","r","n","e","d"," ","b","y"," ","L","L","M",".">>

\* 'Failed to parse LLM marking JSON output.'
MsgParseMarkingFailed ==
  <<"F","a","i","l","e","d"," ","t","o"," ","p","a","r","s","e"," ","L","L","M"," ","m","a","r",
    "k","i","n","g"," ","J","S","O","N"," ","o","u","t","p","u","t",".">>

\* 'Missing API key for '
MsgMissingKeyHead ==
  <<"M","i","s","s","i","n","g"," ","A","P","I"," ","k","e","y"," ","f","o","r"," ">>

\* '! Please set it in the plugin settings.'
MsgMissingKeyTail ==
  <<"!"," ","P","l","e","a","s","e"," ","s","e","t"," ","i","t"," ","i","n"," ","t","h","e"," ",
    "p","l","u","g","i","n"," ","s","e","t","t","i","n","g","s",".">>

\* 'Unsupported provider: '
MsgUnsupportedHead ==
  <<"U","n","s","u","p","p","o","r","t","e","d"," ","p","r","o","v","i","d","e","r",":"," ">>

\* 'The document is too large for the model's context window. Please split your document into smaller sections.'
MsgTooLargeGeneric ==
  <<"T","h","e"," ","d","o","c","u","m","e","n","t"," ","i","s"," ","t","o","o"," ","l","a","r",
    "g","e"," ","f","o","r"," ","t","h","e"," ","m","o","d","e","l","'","s"," ","c","o","n","t",
    "e","x","t"," ","w","i","n","d","o","w","."," ","P","l","e","a","s","e"," ","s","p","l","i",
    "t"," ","y","o","u","r"," ","d","o","c","u","m","e","n","t"," ","i","n","t","o"," ","s","m",
    "a","l","l","e","r"," ","s","e","c","t","i","o","n","s",".">>

\* 'The document is too large for '
MsgTooLargeHead ==
  <<"T","h","e"," ","d","o","c","u","m","e","n","t"," ","i","s"," ","t","o","o"," ","l","a","r",
    "g","e"," ","f","o","r"," ">>

\* ''s context window. Please split your document into smaller sections.'
MsgTooLargeTail ==
  <<"'","s"," ","c","o","n","t","e","x","t"," ","w","i","n","d","o","w","."," ","P","l","e","a",
    "s","e"," ","s","p","l","i","t"," ","y","o","u","r"," ","d","o","c","u","m","e","n","t"," ",
    "i","n","t","o"," ","s","m","a","l","l","e","r"," ","s","e","c","t","i","o","n","s",".">>

\* 'Unknown error'
MsgUnknownError ==
  <<"U","n","k","n","o","w","n"," ","e","r","r","o","r">>

\* 'Reasoning model ('
MsgReasoningHead ==
  <<"R","e","a","s","o","n","i","n","g"," ","m","o","d","e","l"," ","(">>

\* ') spent all tokens thinking and didn't generate an answer. Try a shorter note or check your usage tiers.'
MsgReasoningTail ==
  <<")"," ","s","p","e","n","t"," ","a","l","l"," ","t","o","k","e","n","s"," ","t","h","i","n",
    "k","i","n","g"," ","a","n","d"," ","d","i","d","n","'","t"," ","g","e","n","e","r","a","t",
    "e"," ","a","n"," ","a","n","s","w","e","r","."," ","T","r","y"," ","a"," ","s","h","o","r",
    "t","e","r"," ","n","o","t","e"," ","o","r"," ","c","h","e","c","k"," ","y","o","u","r"," ",
    "u","s","a","g","e"," ","t","i","e","r","s",".">>

\* 'Could not connect to Ollama server at '
MsgOllamaConnectHead ==
  <<"C","o","u","l","d"," ","n","o","t"," ","c","o","n","n","e","c","t"," ","t","o"," ","O","l",
    "l","a","m","a"," ","s","e","r","v","e","r"," ","a","t"," ">>

\* '. Is it running?'
MsgOllamaConnectTail ==
  <<"."," ","I","s"," ","i","t"," ","r","u","n","n","i","n","g","?">>

\* 'context_length_exceeded'
PhraseContextLengthExceeded ==
  <<"c","o","n","t","e","x","t","_","l","e","n","g","t","h","_","e","x","c","e","e","d","e",
    "d">>

\* 'maximum context length'
PhraseMaximumContextLength ==
  <<"m","a","x","i","m","u","m"," ","c","o","n","t","e","x","t"," ","l","e","n","g","t","h">>

\* 'context_window_exceeded'
PhraseContextWindowExceeded ==
  <<"c","o","n","t","e","x","t","_","w","i","n","d","o","w","_","e","x","c","e","e","d","e",
    "d">>

\* 'context window'
PhraseContextWindow ==
  <<"c","o","n","t","e","x","t"," ","w","i","n","d","o","w">>

\* 'context length'
PhraseContextLength ==
  <<"c","o","n","t","e","x","t"," ","l","e","n","g","t","h">>

\* 'context'
PhraseContext ==
  <<"c","o","n","t","e","x","t">>

\* 'token limit'
PhraseTokenLimit ==
  <<"t","o","k","e","n"," ","l","i","m","i","t">>

\* 'Failed to fetch'
PhraseFailedToFetch ==
  <<"F","a","i","l","e","d"," ","t","o"," ","f","e","t","c","h">>

\* 'net::ERR_CONNECTION_REFUSED'
PhraseConnRefused ==
  <<"n","e","t",":",":","E","R","R","_","C","O","N","N","E","C","T","I","O","N","_","R","E","F",
    "U","S","E","D">>

\* 'Failed to parse JSON'
PhraseFailedToParseJSON ==
  <<"F","a","i","l","e","d"," ","t","o"," ","p","a","r","s","e"," ","J","S","O","N">>

\* ' - '
ApiErrorSep ==
  <<" ","-"," ">>

\* 'http://localhost:11434'
DefaultOllamaUrl ==
  <<"h","t","t","p",":","/","/","l","o","c","a","l","h","o","s","t",":","1","1","4","3","4">>

\* 'openai'
NameOpenAI ==
  <<"o","p","e","n","a","i">>

\* 'anthropic'
NameAnthropic ==
  <<"a","n","t","h","r","o","p","i","c">>

\* 'deepseek'
NameDeepSeek ==
  <<"d","e","e","p","s","e","e","k">>

\* 'gemini'
NameGemini ==
  <<"g","e","m","i","n","i">>

\* 'mistral'
NameMistral ==
  <<"m","i","s","t","r","a","l">>

\* 'ollama'
NameOllama ==
  <<"o","l","l","a","m","a">>

\* 'gpt-4o'
ModelGpt4o ==
  <<"g","p","t","-","4","o">>

\* 'claude-3-5-sonnet-latest'
ModelClaude ==
  <<"c","l","a","u","d","e","-","3","-","5","-","s","o","n","n","e","t","-","l","a","t","e","s",
    "t">>

\* 'deepseek-chat'
ModelDeepSeekChat ==
  <<"d","e","e","p","s","e","e","k","-","c","h","a","t">>

\* 'gemini-1.5-pro'
ModelGeminiPro ==
  <<"g","e","m","i","n","i","-","1",".","5","-","p","r","o">>

\* 'mistral-large-latest'
ModelMistralLarge ==
  <<"m","i","s","t","r","a","l","-","l","a","r","g","e","-","l","a","t","e","s","t">>

\* 'llama3'
ModelLlama3 ==
  <<"l","l","a","m","a","3">>

\* 'o1-'
PrefixO1 ==
  <<"o","1","-">>

\* 'o3-'
PrefixO3 ==
  <<"o","3","-">>

\* 'gpt-5'
PrefixGpt5 ==
  <<"g","p","t","-","5">>

\* 'OpenAI API Error: '
ErrHeadOpenAI ==
  <<"O","p","e","n","A","I"," ","A","P","I"," ","E","r","r","o","r",":"," ">>

\* 'Anthropic API Error: '
ErrHeadAnthropic ==
  <<"A","n","t","h","r","o","p","i","c"," ","A","P","I"," ","E","r","r","o","r",":"," ">>

\* 'DeepSeek API Error: '
ErrHeadDeepSeek ==
  <<"D","e","e","p","S","e","e","k"," ","A","P","I"," ","E","r","r","o","r",":"," ">>

\* 'Google Gemini API Error: '
ErrHeadGemini ==
  <<"G","o","o","g","l","e"," ","G","e","m","i","n","i"," ","A","P","I"," ","E","r","r","o","r",
    ":"," ">>

\* 'Mistral API Error: '
ErrHeadMistral ==
  <<"M","i","s","t","r","a","l"," ","A","P","I"," ","E","r","r","o","r",":"," ">>

\* 'Ollama API Error: '
ErrHeadOllama ==
  <<"O","l","l","a","m","a"," ","A","P","I"," ","E","r","r","o","r",":"," ">>

\* short
TypeShort ==
  <<"s","h","o","r","t">>

\* long
TypeLong ==
  <<"l","o","n","g">>

\* extended
TypeExtended ==
  <<"e","x","t","e","n","d","e","d">>

(***************************************************************************)
(* The response parsers.                                                   *)
(***************************************************************************)

\* Fence stripping that drops 3 characters where the marker has 7.
StripQuestionsFencesShort(rawContent) ==
  LET t0 == Trim(rawContent)
      t1 == IF StartsWith(t0, FenceJson) THEN Trim(SliceFrom(t0, 3)) ELSE t0
  IN  IF EndsWith(t1, Fence) THEN Trim(SliceTo(t1, -3)) ELSE t1

\* Fence stripping of parseTestQuestionsResponse: trim, drop a leading
\* json fence marker (7 characters) and a trailing fence marker (3).
StripQuestionsFences(rawContent) ==
  LET t0 == Trim(rawContent)
      t1 == IF StartsWith(t0, FenceJson) THEN Trim(SliceFrom(t0, 7)) ELSE t0
  IN  IF EndsWith(t1, Fence) THEN Trim(SliceTo(t1, -3)) ELSE t1

\* A repair that cuts after the first closing brace (indexOf).
RepairAtFirstBrace(jsonString) ==
  IF \E i \in 1..Len(jsonString) : jsonString[i] = "}"
  THEN SubSeq(jsonString, 1, CHOOSE i \in 1..Len(jsonString) :
                               jsonString[i] = "}" /\ \A j \in 1..(i - 1) : jsonString[j] # "}")
  ELSE jsonString \o <<"}">>

\* Repair of parseTestQuestionsResponse: cut after the last '}' when there
\* is one, then append '}' when the text does not end in one.
RepairQuestionsJson(jsonString) ==
  LET lastBrace == LastIndexOf(jsonString, "}")
      cut == IF lastBrace # -1 THEN SliceTo(jsonString, lastBrace + 1) ELSE jsonString
  IN  IF ~EndsWith(cut, <<"}">>) THEN cut \o <<"}">> ELSE cut

\* A parser without the try around JSON.parse: the SyntaxError escapes.
parseTestQuestionsUncaught(rawContent) ==
  IF rawContent = << >> THEN Throw(Error(MsgNoContent))
  ELSE LET parsed == JSONparse(RepairQuestionsJson(StripQuestionsFences(rawContent)))
       IN  IF parsed.ok THEN Return(parsed.val)
           ELSE Throw([cls |-> "SyntaxError", msg |-> MsgParseQuestionsFailed])

\* A parser that rejects an object with an empty array in it (a question
\* set without questions).
parseTestQuestionsNonEmpty(rawContent) ==
  IF rawContent = << >> THEN Throw(Error(MsgNoContent))
  ELSE LET parsed == JSONparse(RepairQuestionsJson(StripQuestionsFences(rawContent)))
       IN  IF /\ parsed.ok
              /\ ~(/\ parsed.val.t = "obj"
                   /\ \E n \in 1..Len(parsed.val.v) :
                        parsed.val.v[n].v.t = "arr" /\ parsed.val.v[n].v.v = << >>)
           THEN Return(parsed.val)
           ELSE Throw(Error(MsgParseQuestionsFailed))

parseTestQuestionsResponse(rawContent) ==
  IF rawContent = << >> THEN Throw(Error(MsgNoContent))
  ELSE LET parsed == JSONparse(RepairQuestionsJson(StripQuestionsFences(rawContent)))
       IN  IF parsed.ok THEN Return(parsed.val)
           ELSE Throw(Error(MsgParseQuestionsFailed))

\* feedback.replace(/^FENCE[a-z]*\n?/, ''): the fence, the lower-case letters
\* that follow it, and one line feed if it comes next.
RECURSIVE LowerEnd(_, _)
LowerEnd(s, i) ==
  IF i <= Len(s) /\ IsLower(s[i]) THEN LowerEnd(s, i + 1) ELSE i

ReplaceLeadingFence(s) ==
  IF ~StartsWith(s, Fence) THEN s
  ELSE LET e == LowerEnd(s, 4)
           f == IF e <= Len(s) /\ s[e] = "\n" THEN e + 1 ELSE e
       IN  SubSeq(s, f, Len(s))

\* s.replace(/FENCE$/, '')
ReplaceTrailingFence(s) ==
  IF EndsWith(s, Fence) THEN SubSeq(s, 1, Len(s) - 3) ELSE s

\* Fence stripping of parseMarkingResponse: only when the trimmed text
\* starts with a fence.
StripMarkingFences(feedback) ==
  LET t0 == Trim(feedback)
  IN  IF StartsWith(t0, Fence)
      THEN Trim(ReplaceTrailingFence(ReplaceLeadingFence(t0)))
      ELSE t0

parseMarkingResponse(feedback) ==
  IF feedback = << >> THEN Throw(Error(MsgNoFeedback))
  ELSE LET parsed == JSONparse(StripMarkingFences(feedback))
       IN  IF parsed.ok THEN Return(parsed.val)
           ELSE Throw(Error(MsgParseMarkingFailed))

(***************************************************************************)
(* The provider adapters.  Each adapter issues one requestUrl and awaits   *)
(* it; the operators below are what the adapter does once the request has  *)
(* settled.  A settled request is a record:                                *)
(*   threw, emsg       requestUrl rejected with Error(emsg)                *)
(*   status            response.status                                     *)
(*   code, etype, message   response.json.error.{code, type, message}      *)
(*   text              response.text, the raw body                         *)
(*   content           the completion at the provider's path of the body   *)
(*   reasoning         choices[0].message.reasoning_content                *)
(* An absent string field is the empty sequence, which the source treats   *)
(* as it treats undefined (x || d, x?.includes).                           *)
(***************************************************************************)

AReturn(text) == [tag |-> "ok", text |-> text, err |-> NoError]

AThrow(err) == [tag |-> "err", text |-> << >>, err |-> err]

\* a || b on strings
OrElse(a, b) == IF a = << >> THEN b ELSE a

DigitChar(d) ==
  CASE d = 0 -> "0" [] d = 1 -> "1" [] d = 2 -> "2" [] d = 3 -> "3" [] d = 4 -> "4"
    [] d = 5 -> "5" [] d = 6 -> "6" [] d = 7 -> "7" [] d = 8 -> "8" [] d = 9 -> "9"

\* String(n) for a natural number, as a template literal renders it.
RECURSIVE NumStr(_)
NumStr(n) ==
  IF n < 10 THEN <<DigitChar(n)>> ELSE NumStr(n \div 10) \o <<DigitChar(n % 10)>>

\* The message of the ContextLengthExceededError an adapter raises.
TooLargeFor(model) == MsgTooLargeHead \o model \o MsgTooLargeTail

\* new Error(`<Provider> API Error: ${status} - ${message || "Unknown error"}`)
ApiError(head, status, message) ==
  Error(head \o NumStr(status) \o ApiErrorSep \o OrElse(message, MsgUnknownError))

isReasoningModel(model) ==
  StartsWith(model, PrefixO1) \/ StartsWith(model, PrefixO3) \/ StartsWith(model, PrefixGpt5)

\* messages of callOpenAI: one user message holding both texts for the
\* reasoning models named preview or (unless o3) mini, else a system
\* message and a user message.
OpenAIMessages(systemMessage, userPrompt, model) ==
  IF /\ isReasoningModel(model)
     /\ \/ Includes(model, <<"p","r","e","v","i","e","w">>)
        \/ Includes(model, <<"m","i","n","i">>) /\ ~Includes(model, <<"o","3">>)
  THEN << [role |-> "user", content |-> systemMessage \o <<"\n", "\n">> \o userPrompt] >>
  ELSE << [role |-> "system", content |-> systemMessage],
          [role |-> "user", content |-> userPrompt] >>

\* A request body whose reasoning budget is four times maxTokens, with no
\* floor.
OpenAIRequestBodyNoFloor(systemMessage, userPrompt, model, maxTokens) ==
  IF isReasoningModel(model)
  THEN [model |-> model, messages |-> OpenAIMessages(systemMessage, userPrompt, model),
        tokenField |-> "max_completion_tokens", tokens |-> maxTokens * 4,
        temperature |-> "absent"]
  ELSE [model |-> model, messages |-> OpenAIMessages(systemMessage, userPrompt, model),
        tokenField |-> "max_tokens", tokens |-> maxTokens, temperature |-> "0.7"]

\* requestBody of callOpenAI: max_completion_tokens = Math.max(maxTokens * 4,
\* 4000) and no temperature for a reasoning model, else max_tokens =
\* maxTokens and temperature 0.7.
OpenAIRequestBody(systemMessage, userPrompt, model, maxTokens) ==
  IF isReasoningModel(model)
  THEN [model |-> model, messages |-> OpenAIMessages(systemMessage, userPrompt, model),
        tokenField |-> "max_completion_tokens",
        tokens |-> IF maxTokens * 4 >= 4000 THEN maxTokens * 4 ELSE 4000,
        temperature |-> "absent"]
  ELSE [model |-> model, messages |-> OpenAIMessages(systemMessage, userPrompt, model),
        tokenField |-> "max_tokens", tokens |-> maxTokens, temperature |-> "0.7"]

callOpenAI(model, response) ==
  IF response.threw THEN AThrow(Error(response.emsg))
  ELSE IF response.status # 200
       THEN IF response.code = PhraseContextLengthExceeded
            THEN AThrow(ContextLengthExceededError(TooLargeFor(model)))
            ELSE AThrow(ApiError(ErrHeadOpenAI, response.status, response.message))
  ELSE IF response.content = << >> /\ isReasoningModel(model) /\ response.reasoning # << >>
       THEN AThrow(Error(MsgReasoningHead \o model \o MsgReasoningTail))
  ELSE AReturn(response.content)

callAnthropic(model, response) ==
  IF response.threw THEN AThrow(Error(response.emsg))
  ELSE IF response.status # 200
       THEN IF \/ response.etype = PhraseContextLengthExceeded
               \/ Includes(response.message, PhraseContextWindow)
            THEN AThrow(ContextLengthExceededError(TooLargeFor(model)))
            ELSE AThrow(ApiError(ErrHeadAnthropic, response.status, response.message))
  ELSE AReturn(response.content)

\* A DeepSeek adapter that knows the overflow by its error code only.
callDeepSeekCodeOnly(model, response) ==
  IF response.threw THEN AThrow(Error(response.emsg))
  ELSE IF response.status # 200
       THEN IF response.code = PhraseContextWindowExceeded
            THEN AThrow(ContextLengthExceededError(TooLargeFor(model)))
            ELSE AThrow(ApiError(ErrHeadDeepSeek, response.status, response.message))
  ELSE AReturn(response.content)

callDeepSeek(model, response) ==
  IF response.threw THEN AThrow(Error(response.emsg))
  ELSE IF response.status # 200
       THEN IF \/ response.code = PhraseContextWindowExceeded
               \/ Includes(response.message, PhraseContextLength)
            THEN AThrow(ContextLengthExceededError(TooLargeFor(model)))
            ELSE AThrow(ApiError(ErrHeadDeepSeek, response.status, response.message))
  ELSE AReturn(response.content)

callGemini(model, response) ==
  IF response.threw THEN AThrow(Error(response.emsg))
  ELSE IF response.status # 200
       THEN IF \/ Includes(response.message, PhraseContextLength)
               \/ Includes(response.message, PhraseTokenLimit)
            THEN AThrow(ContextLengthExceededError(TooLargeFor(model)))
            ELSE AThrow(ApiError(ErrHeadGemini, response.status, response.message))
  ELSE AReturn(response.content)

callMistral(model, response) ==
  IF response.threw THEN AThrow(Error(response.emsg))
  ELSE IF response.status # 200
       THEN IF \/ response.etype = PhraseContextLengthExceeded
               \/ Includes(response.message, PhraseContext)
               \/ Includes(response.message, PhraseTokenLimit)
            THEN AThrow(ContextLengthExceededError(TooLargeFor(model)))
            ELSE AThrow(ApiError(ErrHeadMistral, response.status, response.message))
  ELSE AReturn(response.content)

\* The try block of callOllama.
OllamaTry(model, response) ==
  IF response.threw THEN AThrow(Error(response.emsg))
  ELSE IF response.status # 200
       THEN IF \/ Includes(response.text, PhraseContextWindow)
               \/ Includes(response.text, PhraseContextLength)
            THEN AThrow(ContextLengthExceededError(TooLargeFor(model)))
            ELSE AThrow(Error(ErrHeadOllama \o NumStr(response.status) \o ApiErrorSep
                              \o OrElse(response.text, MsgUnknownError)))
  ELSE AReturn(response.content)

\* An adapter whose catch reports every generic error as a connection
\* failure.
callOllamaAllUnreachable(model, ollamaUrl, response) ==
  LET r == OllamaTry(model, response)
  IN  IF r.tag = "ok" THEN r
      ELSE IF r.err.cls = "ContextLengthExceededError" THEN r
      ELSE AThrow(Error(MsgOllamaConnectHead \o ollamaUrl \o MsgOllamaConnectTail))

\* callOllama: the try block, then its catch.
callOllama(model, ollamaUrl, response) ==
  LET r == OllamaTry(model, response)
  IN  IF r.tag = "ok" THEN r
      ELSE IF r.err.cls = "ContextLengthExceededError" THEN r
      ELSE IF Includes(r.err.msg, PhraseFailedToFetch) \/ Includes(r.err.msg, PhraseConnRefused)
           THEN AThrow(Error(MsgOllamaConnectHead \o ollamaUrl \o MsgOllamaConnectTail))
      ELSE r

(***************************************************************************)
(* Weight resolution: the body of the forEach of markTestAnswers that      *)
(* gives each question its maxMarks.                                       *)
(***************************************************************************)

\* The text with the white space at its end removed (what \s*$ skips).
TrimEnd(s) ==
  IF \A i \in 1..Len(s) : IsSpace(s[i]) THEN << >>
  ELSE SubSeq(s, 1, CHOOSE i \in 1..Len(s) :
                      ~IsSpace(s[i]) /\ \A j \in (i + 1)..Len(s) : IsSpace(s[j]))

\* pair.question.match(/\((\d)\)\s*$/): the captured digit, or the empty
\* sequence for null (no match).
MarksMatch(question) ==
  LET t == TrimEnd(question)
      n == Len(t)
  IN  IF n >= 3 /\ t[n - 2] = "(" /\ IsDigit(t[n - 1]) /\ t[n] = ")"
      THEN <<t[n - 1]>>
      ELSE << >>

\* A resolution that asks the type first.
ResolveTypeFirst(pair) ==
  LET marksMatch == MarksMatch(pair.question)
  IN  IF pair.type = TypeLong THEN 2
      ELSE IF pair.type = TypeExtended THEN 3
      ELSE IF marksMatch # << >> /\ DigitVal(marksMatch[1]) \in {1, 2, 3}
      THEN DigitVal(marksMatch[1])
      ELSE 1

\* A resolution that never asks the type once a digit suffix matched.
ResolveSuffixOnly(pair) ==
  LET marksMatch == MarksMatch(pair.question)
  IN  IF marksMatch # << >>
      THEN IF DigitVal(marksMatch[1]) \in {1, 2, 3} THEN DigitVal(marksMatch[1]) ELSE 1
      ELSE IF pair.type = TypeLong THEN 2
      ELSE IF pair.type = TypeExtended THEN 3
      ELSE 1

\* maxMarks of one qnaPairs entry: the suffix when it is 1, 2 or 3, else
\* the type, else 1.
ResolveMaxMarks(pair) ==
  LET marksMatch == MarksMatch(pair.question)
  IN  IF marksMatch # << >> /\ DigitVal(marksMatch[1]) \in {1, 2, 3}
      THEN DigitVal(marksMatch[1])
      ELSE IF pair.type = TypeLong THEN 2
      ELSE IF pair.type = TypeExtended THEN 3
      ELSE 1

(***************************************************************************)
(* The user prompts the orchestrators hand to the adapter.                 *)
(***************************************************************************)

\* '[No answer provided]'
MsgNoAnswer ==
  <<"[","N","o"," ","a","n","s","w","e","r"," ","p","r","o","v","i","d","e","d","]">>

\* The two lines formatNotesForLLM appends for each note from notes[i] on:
\* '### Note: <filePath>' and 'Content:' followed by the content.
RECURSIVE FormatNotesFrom(_, _)
FormatNotesFrom(notes, i) ==
  IF i > Len(notes) THEN << >>
  ELSE <<"#","#","#"," ","N","o","t","e",":"," ">> \o notes[i].filePath \o <<"\n">>
       \o <<"C","o","n","t","e","n","t",":","\n">> \o notes[i].content \o <<"\n", "\n">>
       \o FormatNotesFrom(notes, i + 1)

\* A formatter that takes the notes from the last to the first.
formatNotesLastFirst(notes) ==
  <<"G","e","n","e","r","a","t","e"," ","t","e","s","t"," ","q","u","e","s","t","i","o","n",
    "s"," ","b","a","s","e","d"," ","o","n"," ","t","h","e"," ","f","o","l","l","o","w","i",
    "n","g"," ","n","o","t","e","s",".","\n","\n">>
  \o FormatNotesFrom([k \in 1..Len(notes) |-> notes[Len(notes) + 1 - k]], 1)
  \o <<"E","n","s","u","r","e"," ","t","h","a","t"," ","t","h","e"," ","t","e","s","t"," ",
       "q","u","e","s","t","i","o","n","s"," ","a","r","e"," ","r","e","l","e","v","a","n",
       "t"," ","t","o"," ","t","h","e"," ","c","o","n","t","e","n","t"," ","a","n","d"," ",
       "t","e","s","t"," ","k","e","y"," ","c","o","n","c","e","p","t","s",".">>

\* formatNotesForLLM: the opening line, the notes in order, the closing line.
formatNotesForLLM(notes) ==
  <<"G","e","n","e","r","a","t","e"," ","t","e","s","t"," ","q","u","e","s","t","i","o","n",
    "s"," ","b","a","s","e","d"," ","o","n"," ","t","h","e"," ","f","o","l","l","o","w","i",
    "n","g"," ","n","o","t","e","s",".","\n","\n">>
  \o FormatNotesFrom(notes, 1)
  \o <<"E","n","s","u","r","e"," ","t","h","a","t"," ","t","h","e"," ","t","e","s","t"," ","q",
     "u","e","s","t","i","o","n","s"," ","a","r","e"," ","r","e","l","e","v","a","n","t"," ",
     "t","o"," ","t","h","e"," ","c","o","n","t","e","n","t"," ","a","n","d"," ","t","e","s",
     "t"," ","k","e","y"," ","c","o","n","c","e","p","t","s",".">>

\* An entry numbered by the position in the array, from 0.
PromptEntryFromZero(pair, index) ==
  <<"Q">> \o NumStr(index) \o <<" ","(","m","a","x","M","a","r","k","s","=">>
  \o NumStr(ResolveMaxMarks(pair)) \o <<")", ":", " ">> \o pair.question
  \o <<"\n","A","n","s","w","e","r",":"," ">> \o OrElse(pair.answer, MsgNoAnswer)
  \o <<"\n", "\n">>

\* What the forEach of markTestAnswers appends for qnaPairs[index], index
\* counted from 0: 'Q<index + 1> (maxMarks=<maxMarks>): <question>', then
\* 'Answer: <answer || [No answer provided]>', then an empty line.
PromptEntry(pair, index) ==
  <<"Q">> \o NumStr(index + 1) \o <<" ","(","m","a","x","M","a","r","k","s","=">>
  \o NumStr(ResolveMaxMarks(pair)) \o <<")", ":", " ">> \o pair.question
  \o <<"\n","A","n","s","w","e","r",":"," ">> \o OrElse(pair.answer, MsgNoAnswer)
  \o <<"\n", "\n">>

\* The entries the forEach appends from position index on.
RECURSIVE PromptEntries(_, _)
PromptEntries(qnaPairs, index) ==
  IF index >= Len(qnaPairs) THEN << >>
  ELSE PromptEntry(qnaPairs[index + 1], index) \o PromptEntries(qnaPairs, index + 1)

\* userPrompt of markTestAnswers: the source document, the entries, the
\* closing instruction.
GradingUserPrompt(noteContent, qnaPairs) ==
  <<"S","O","U","R","C","E"," ","D","O","C","U","M","E","N","T",":","\n">> \o noteContent
  \o <<"\n","\n","U","S","E","R"," ","A","N","S","W","E","R","S",":","\n">>
  \o PromptEntries(qnaPairs, 0)
  \o <<"P","l","e","a","s","e"," ","r","e","t","u","r","n"," ","a"," ","J","S","O","N"," ","a",
     "r","r","a","y"," ","o","f"," ","o","b","j","e","c","t","s",","," ","e","a","c","h"," ",
     "w","i","t","h"," ","{"," ","\"","q","u","e","s","t","i","o","n","N","u","m","b","e",
     "r","\"",","," ","\"","m","a","r","k","s","\"",","," ","\"","m","a","x","M","a","r","k",
     "s","\"",","," ","\"","f","e","e","d","b","a","c","k","\""," ","}","."," ","\n","M","a",
     "r","k","s"," ","s","h","o","u","l","d"," ","r","e","f","l","e","c","t"," ","t","h","e",
     " ","q","u","a","l","i","t","y"," ","o","f"," ","t","h","e"," ","a","n","s","w","e","r",
     " ","(","0"," ","="," ","n","o"," ","c","r","e","d","i","t",","," ","m","a","x","M","a",
     "r","k","s"," ","="," ","f","u","l","l"," ","c","r","e","d","i","t",","," ","w","i","t",
     "h"," ","p","a","r","t","i","a","l"," ","m","a","r","k","s"," ","p","o","s","s","i","b",
     "l","e",")",".","\n","N","o"," ","e","x","t","r","a"," ","f","i","e","l","d","s",",",
     " ","n","o"," ","m","a","r","k","d","o","w","n"," ","c","o","d","e"," ","b","l","o","c",
     "k","s",".">>

(***************************************************************************)
(* The orchestrators generateTestQuestions and markTestAnswers.            *)
(***************************************************************************)

\* The providers the two switch statements have a case for.
SupportedProviders ==
  {NameOpenAI, NameAnthropic, NameDeepSeek, NameGemini, NameMistral, NameOllama}

\* apiKeys[provider] || ""
getApiKey(provider, apiKeys) ==
  IF provider \in DOMAIN apiKeys THEN apiKeys[provider] ELSE << >>

getDefaultModel(provider) ==
  CASE provider = NameOpenAI -> ModelGpt4o
    [] provider = NameAnthropic -> ModelClaude
    [] provider = NameDeepSeek -> ModelDeepSeekChat
    [] provider = NameGemini -> ModelGeminiPro
    [] provider = NameMistral -> ModelMistralLarge
    [] provider = NameOllama -> ModelLlama3
    [] OTHER -> << >>

\* models?.[provider] || getDefaultModel(provider)
ModelFor(provider, models) ==
  OrElse(IF provider \in DOMAIN models THEN models[provider] ELSE << >>,
         getDefaultModel(provider))

\* new Error(`Missing API key for ${provider}! Please set it in the plugin settings.`)
MissingKeyError(provider) == Error(MsgMissingKeyHead \o provider \o MsgMissingKeyTail)

\* new Error(`Unsupported provider: ${provider}`)
UnsupportedError(provider) == Error(MsgUnsupportedHead \o provider)

\* A credential check that exempts no provider.
MissingKeyAnyProvider(provider, apiKey) == apiKey = << >>

\* The credential check that precedes the try block of both orchestrators.
MissingKey(provider, apiKey) == provider # NameOllama /\ apiKey = << >>

\* The switch on provider, for a request that has settled.
Dispatch(provider, model, ollamaUrl, response) ==
  CASE provider = NameOpenAI -> callOpenAI(model, response)
    [] provider = NameAnthropic -> callAnthropic(model, response)
    [] provider = NameDeepSeek -> callDeepSeek(model, response)
    [] provider = NameGemini -> callGemini(model, response)
    [] provider = NameMistral -> callMistral(model, response)
    [] provider = NameOllama -> callOllama(model, ollamaUrl, response)
    [] OTHER -> AThrow(UnsupportedError(provider))

\* The parser the orchestrator hands the completion to.
ParseFor(op, text) ==
  IF op = "generate" THEN parseTestQuestionsResponse(text) ELSE parseMarkingResponse(text)

\* The try block of an orchestrator once its adapter has returned or
\* thrown: what the adapter threw, or what the parser makes of the text.
TryBlock(op, a) ==
  IF a.tag = "err" THEN Throw(a.err) ELSE ParseFor(op, a.text)

\* A catch block that rethrows a plain Error made from the message.
CatchBlockRewrap(res) ==
  IF res.tag = "ok" THEN res ELSE Throw(Error(res.err.msg))

\* A catch block that rethrows whatever it caught.
CatchBlockRethrowAll(res) == res

\* A catch block that knows the overflow by one of the two phrases only.
CatchBlockOnePhrase(res) ==
  IF res.tag = "ok" THEN res
  ELSE IF res.err.cls = "ContextLengthExceededError" THEN res
  ELSE IF Includes(res.err.msg, PhraseContextLengthExceeded)
       THEN Throw(ContextLengthExceededError(MsgTooLargeGeneric))
  ELSE res

\* The catch block of both orchestrators.
CatchBlock(res) ==
  IF res.tag = "ok" THEN res
  ELSE IF res.err.cls = "ContextLengthExceededError" THEN res
  ELSE IF \/ Includes(res.err.msg, PhraseContextLengthExceeded)
          \/ Includes(res.err.msg, PhraseMaximumContextLength)
       THEN Throw(ContextLengthExceededError(MsgTooLargeGeneric))
  ELSE res

NoResult == [tag |-> "none", val |-> JNull, err |-> NoError]

NoResponse ==
  [threw |-> FALSE, emsg |-> << >>, status |-> 0, code |-> << >>, etype |-> << >>,
   message |-> << >>, text |-> << >>, content |-> << >>, reasoning |-> << >>]

NoAdapter == [tag |-> "none", text |-> << >>, err |-> NoError]

\* A call of an orchestrator: where it stands (idle, awaiting its request,
\* done), its arguments, the requests it has issued, the request's outcome,
\* what the adapter returned or threw, what the try block returned or
\* threw, and what the caller observes; work holds the material it was
\* called with, userPrompt and maxTokens are the prompt and the token
\* allowance the orchestrator hands the adapter.
IdleCall ==
  [pc |-> "idle", op |-> "none", provider |-> << >>, apiKey |-> << >>, model |-> << >>,
   work |-> [indexedNotes |-> << >>, noteContent |-> << >>, qnaPairs |-> << >>],
   userPrompt |-> << >>, maxTokens |-> 0, ollamaUrl |-> << >>, requests |-> 0,
   response |-> NoResponse, adapter |-> NoAdapter, inner |-> NoResult,
   result |-> NoResult]

\* generateTestQuestions / markTestAnswers up to the await of the adapter's
\* requestUrl: the credential check, then the switch.
StartCall(op, provider, apiKeys, models, ollamaSettings, work) ==
  LET apiKey == getApiKey(provider, apiKeys)
      model == ModelFor(provider, models)
      base == [IdleCall EXCEPT !.op = op, !.provider = provider, !.apiKey = apiKey,
                               !.model = model,
                               !.work = work]
      prompted == [base EXCEPT !.userPrompt = IF op = "generate"
                                              THEN formatNotesForLLM(work.indexedNotes)
                                              ELSE GradingUserPrompt(work.noteContent,
                                                                     work.qnaPairs)]
  IN  IF MissingKey(provider, apiKey)
      THEN [base EXCEPT !.pc = "done", !.result = Throw(MissingKeyError(provider))]
      ELSE IF provider \notin SupportedProviders
      THEN [prompted EXCEPT !.pc = "done",
                            !.inner = Throw(UnsupportedError(provider)),
                            !.result = CatchBlock(Throw(UnsupportedError(provider)))]
      ELSE [prompted EXCEPT !.pc = "awaiting", !.requests = 1,
                        !.maxTokens = IF op = "generate" THEN 500 ELSE 1000,
                        !.ollamaUrl = IF provider = NameOllama
                                      THEN OrElse(ollamaSettings, DefaultOllamaUrl)
                                      ELSE << >>]

\* A call that issues its request again when the first one failed.
FinishCallRetry(c, response) ==
  LET a == Dispatch(c.provider, c.model, c.ollamaUrl, response)
      inner == TryBlock(c.op, a)
  IN  IF a.tag = "err" /\ c.requests < 2
      THEN [c EXCEPT !.requests = c.requests + 1]
      ELSE [c EXCEPT !.pc = "done", !.response = response, !.adapter = a,
                     !.inner = inner, !.result = CatchBlock(inner)]

\* A call that names its provider in the object it returns.
FinishCallTagged(c, response) ==
  LET a == Dispatch(c.provider, c.model, c.ollamaUrl, response)
      inner == TryBlock(c.op, a)
      res == CatchBlock(inner)
  IN  [c EXCEPT !.pc = "done", !.response = response, !.adapter = a, !.inner = inner,
                !.result = IF res.tag = "ok" /\ res.val.t = "obj"
                           THEN Return([res.val EXCEPT !.v =
                                  SetMember(@, <<"p","r","o","v","i","d","e","r">>,
                                            [t |-> "str", v |-> c.provider])])
                           ELSE res]

\* The rest of the call once its request has settled.
FinishCall(c, response) ==
  LET a == Dispatch(c.provider, c.model, c.ollamaUrl, response)
      inner == TryBlock(c.op, a)
  IN  [c EXCEPT !.pc = "done", !.response = response, !.adapter = a,
                !.inner = inner, !.result = CatchBlock(inner)]

(***************************************************************************)
(* Scoring of a marked test: what handleMarkButtonClick (QuestionView) and *)
(* markAllTests (DashboardView) make of the array markTestAnswers returns. *)
(* A score is a rational number n/d in lowest terms.                       *)
(***************************************************************************)

RECURSIVE GCD(_, _)
GCD(a, b) == IF b = 0 THEN a ELSE GCD(b, a % b)

Rat(n, d) ==
  IF n = 0 THEN [n |-> 0, d |-> 1] ELSE [n |-> n \div GCD(n, d), d |-> d \div GCD(n, d)]

\* null in markResults.
NullMark == [set |-> FALSE, marks |-> 0, maxMarks |-> 0, feedback |-> << >>]

\* feedbackArray.forEach from item k on: an item whose questionNumber - 1
\* is an index of markResults is stored at that index.
RECURSIVE PlaceMarks(_, _, _)
PlaceMarks(markResults, feedbackArray, k) ==
  IF k > Len(feedbackArray) THEN markResults
  ELSE LET item == feedbackArray[k]
           i == item.questionNumber - 1
       IN  PlaceMarks(IF i >= 0 /\ i < Len(markResults)
                      THEN [markResults EXCEPT ![i + 1] =
                              [set |-> TRUE, marks |-> item.marks,
                               maxMarks |-> item.maxMarks, feedback |-> item.feedback]]
                      ELSE markResults,
                      feedbackArray, k + 1)

\* new Array(length).fill(null), then the forEach.
FillMarkResults(length, feedbackArray) ==
  PlaceMarks([i \in 1..length |-> NullMark], feedbackArray, 1)

\* The loop of handleMarkButtonClick over markResults from index i on: the
\* sum of a field over the entries that are not null.
RECURSIVE ViewTotal(_, _, _)
ViewTotal(markResults, field, i) ==
  IF i > Len(markResults) THEN 0
  ELSE (IF markResults[i].set THEN markResults[i][field] ELSE 0)
       + ViewTotal(markResults, field, i + 1)

\* The sums markAllTests adds up inside its forEach from item k on: a
\* field of every item whose questionNumber - 1 is in range.
RECURSIVE DashTotal(_, _, _, _)
DashTotal(length, feedbackArray, field, k) ==
  IF k > Len(feedbackArray) THEN 0
  ELSE LET i == feedbackArray[k].questionNumber - 1
       IN  (IF i >= 0 /\ i < length THEN feedbackArray[k][field] ELSE 0)
           + DashTotal(length, feedbackArray, field, k + 1)

\* A toFixed(1) that cuts the digits after the first decimal.
ToFixed1Cut(earned, possible) == (1000 * earned) \div possible

\* ((earned / possible) * 100).toFixed(1), in tenths: the nearest tenth,
\* the larger one on a tie.
ToFixed1(earned, possible) == (2000 * earned + possible) \div (2 * possible)

NotMarked == [done |-> FALSE, score |-> Rat(0, 1), markResults |-> << >>]

\* What handleMarkButtonClick stores for a test of length questions:
\* score: parseFloat(percentage) and markResults.
ViewMarked(length, feedbackArray) ==
  LET markResults == FillMarkResults(length, feedbackArray)
      totalPossibleMarks == ViewTotal(markResults, "maxMarks", 1)
      totalEarnedMarks == ViewTotal(markResults, "marks", 1)
  IN  [done |-> TRUE,
       score |-> IF totalPossibleMarks # 0
                 THEN Rat(ToFixed1(totalEarnedMarks, totalPossibleMarks), 10)
                 ELSE Rat(0, 1),
       markResults |-> markResults]

\* What markAllTests stores for it: score: percentage and markResults.
DashMarked(length, feedbackArray) ==
  LET totalPossibleMarks == DashTotal(length, feedbackArray, "maxMarks", 1)
      totalEarnedMarks == DashTotal(length, feedbackArray, "marks", 1)
  IN  [done |-> TRUE,
       score |-> IF totalPossibleMarks # 0
                 THEN Rat(100 * totalEarnedMarks, totalPossibleMarks)
                 ELSE Rat(0, 1),
       markResults |-> FillMarkResults(length, feedbackArray)]

(***************************************************************************)
(* Sample strings: keys, model names, completions, error bodies.           *)
(***************************************************************************)

\* 'cohere'
NameCohere ==
  <<"c","o","h","e","r","e">>

\* 'o1-mini'
ModelO1Mini ==
  <<"o","1","-","m","i","n","i">>

\* 'sk'
SomeKey ==
  <<"s","k">>

\* '{'description':'d','questions':[{'question':'Q (1)','type':'short'}]}'
TextQuestions ==
  <<"{","\"","d","e","s","c","r","i","p","t","i","o","n","\"",":","\"","d","\"",",","\"","q",
    "u","e","s","t","i","o","n","s","\"",":","[","{","\"","q","u","e","s","t","i","o","n","\"",
    ":","\"","Q"," ","(","1",")","\"",",","\"","t","y","p","e","\"",":","\"","s","h","o","r",
    "t","\"","}","]","}">>

\* ''''json\n{'description':'d','questions':[]}\n''''
TextQuestionsFenced ==
  <<BT,BT,BT,"j","s","o","n","\n","{","\"","d","e","s","c","r","i","p","t","i","o","n","\"",":",
    "\"","d","\"",",","\"","q","u","e","s","t","i","o","n","s","\"",":","[","]","}","\n",BT,BT,
    BT>>

\* '{'description':'d','questions':[{'question':'Q (1)''
TextQuestionsCut ==
  <<"{","\"","d","e","s","c","r","i","p","t","i","o","n","\"",":","\"","d","\"",",","\"","q",
    "u","e","s","t","i","o","n","s","\"",":","[","{","\"","q","u","e","s","t","i","o","n","\"",
    ":","\"","Q"," ","(","1",")","\"">>

\* '[{'questionNumber':1,'marks':1,'maxMarks':1,'feedback':'ok'}]'
TextMarks ==
  <<"[","{","\"","q","u","e","s","t","i","o","n","N","u","m","b","e","r","\"",":","1",",","\"",
    "m","a","r","k","s","\"",":","1",",","\"","m","a","x","M","a","r","k","s","\"",":","1",",",
    "\"","f","e","e","d","b","a","c","k","\"",":","\"","o","k","\"","}","]">>

\* ''''\n[{'questionNumber':1,'marks':0,'maxMarks':2,'feedback':'no'}]\n''''
TextMarksFenced ==
  <<BT,BT,BT,"\n","[","{","\"","q","u","e","s","t","i","o","n","N","u","m","b","e","r","\"",":",
    "1",",","\"","m","a","r","k","s","\"",":","0",",","\"","m","a","x","M","a","r","k","s","\"",
    ":","2",",","\"","f","e","e","d","b","a","c","k","\"",":","\"","n","o","\"","}","]","\n",BT,
    BT,BT>>

\* 'Sorry, I cannot help.'
TextProse ==
  <<"S","o","r","r","y",","," ","I"," ","c","a","n","n","o","t"," ","h","e","l","p",".">>

\* 'quota exceeded'
BodyQuota ==
  <<"q","u","o","t","a"," ","e","x","c","e","e","d","e","d">>

\* 'This model's maximum context length is 8192 tokens'
BodyMaxContext ==
  <<"T","h","i","s"," ","m","o","d","e","l","'","s"," ","m","a","x","i","m","u","m"," ","c","o",
    "n","t","e","x","t"," ","l","e","n","g","t","h"," ","i","s"," ","8","1","9","2"," ","t","o",
    "k","e","n","s">>

\* 'prompt exceeds the context window'
BodyContextWindow ==
  <<"p","r","o","m","p","t"," ","e","x","c","e","e","d","s"," ","t","h","e"," ","c","o","n","t",
    "e","x","t"," ","w","i","n","d","o","w">>

\* 'token limit reached'
BodyTokenLimit ==
  <<"t","o","k","e","n"," ","l","i","m","i","t"," ","r","e","a","c","h","e","d">>

\* 'Failed to fetch'
NetFetch ==
  <<"F","a","i","l","e","d"," ","t","o"," ","f","e","t","c","h">>

\* 'net::ERR_CONNECTION_REFUSED'
NetRefused ==
  <<"n","e","t",":",":","E","R","R","_","C","O","N","N","E","C","T","I","O","N","_","R","E","F",
    "U","S","E","D">>

\* 'Request failed, status 400'
NetStatus400 ==
  <<"R","e","q","u","e","s","t"," ","f","a","i","l","e","d",","," ","s","t","a","t","u","s"," ",
    "4","0","0">>

\* '400 context_length_exceeded'
NetOverflow ==
  <<"4","0","0"," ","c","o","n","t","e","x","t","_","l","e","n","g","t","h","_","e","x","c","e",
    "e","d","e","d">>

\* 'http://pc:1'
SomeUrl ==
  <<"h","t","t","p",":","/","/","p","c",":","1">>

\* essay
TypeEssay ==
  <<"e","s","s","a","y">>

\* {'d':'x','q':[]}
ObjSmall ==
  <<"{","\"","d","\"",":","\"","x","\"",",","\"","q","\"",":","[","]","}">>

\* {'d':'x','q':[{'q':'a'}]}
ObjNested ==
  <<"{","\"","d","\"",":","\"","x","\"",",","\"","q","\"",":","[","{","\"","q","\"",":","\"",
    "a","\"","}","]","}">>

\* {'d':'}'}
ObjBraceInString ==
  <<"{","\"","d","\"",":","\"","}","\"","}">>

\* {'d':'x','q':[{'q':'a'}
ObjCutArray ==
  <<"{","\"","d","\"",":","\"","x","\"",",","\"","q","\"",":","[","{","\"","q","\"",":","\"",
    "a","\"","}">>

\* {'d':'x','q':[{'q':'a'
ObjCutMember ==
  <<"{","\"","d","\"",":","\"","x","\"",",","\"","q","\"",":","[","{","\"","q","\"",":","\"",
    "a","\"">>

\* {'d':'x'
ObjCutFlat ==
  <<"{","\"","d","\"",":","\"","x","\"">>

\* {'a':{'b':1},'c
ObjCutAfterInner ==
  <<"{","\"","a","\"",":","{","\"","b","\"",":","1","}",",","\"","c">>

\* {'d':'x'} ok?
ObjThenProse ==
  <<"{","\"","d","\"",":","\"","x","\"","}"," ","o","k","?">>

\* [{'n':1,'m':2}]
ArrMarks ==
  <<"[","{","\"","n","\"",":","1",",","\"","m","\"",":","2","}","]">>

\* []
ArrEmpty ==
  <<"[","]">>

\* no
Prose ==
  <<"n","o">>

\* js
TagJs ==
  <<"j","s">>

\* JSON
TagJSON ==
  <<"J","S","O","N">>

\* Why?
StemPlain ==
  <<"W","h","y","?">>

\* A (2) b
StemInner ==
  <<"A"," ","(","2",")"," ","b">>

(***************************************************************************)
(* Arguments and HTTP outcomes the calls are checked on.                   *)
(***************************************************************************)

Providers == SupportedProviders \cup {NameCohere}

\* The apiKeys setting: no key stored, or a key stored for every provider
\* that takes one.
KeyMaps ==
  { [p \in {} |-> << >>],
    [p \in Providers \ {NameOllama} |-> SomeKey] }

\* The models setting: nothing chosen, or a reasoning model for OpenAI.
ModelMaps ==
  { [p \in {} |-> << >>],
    [p \in {NameOpenAI} |-> ModelO1Mini] }

\* ollamaSettings?.url: absent, or a configured base URL.
OllamaUrls == { << >>, SomeUrl }

Ops == {"generate", "grade"}

NoteSun == [filePath |-> <<"a",".","m","d">>, content |-> <<"S","u","n">>]

NoteSea == [filePath |-> <<"b","/","c",".","m","d">>, content |-> <<"S","e","a","\\","n">>]

\* indexedNotes of generateTestQuestions.
NoteLists == { << >>, <<NoteSun>>, <<NoteSun, NoteSea>>, <<NoteSea, NoteSun>> }

\* noteContent of markTestAnswers.
SourceTexts == { <<"S","u","n","\\","n","S","e","a">> }

\* An answered question that ends in a weight, and an unanswered one that
\* has only a type.
QnaAnswered ==
  [question |-> <<"W","h","y","?"," ","(","2",")">>, answer |-> <<"h","o","t">>,
   type |-> TypeShort]

QnaBlank == [question |-> <<"S","a","y">>, answer |-> << >>, type |-> TypeExtended]

MaxQuestions == 2

\* qnaPairs of markTestAnswers: up to MaxQuestions entries.
QnaLists == UNION { [1..n -> {QnaAnswered, QnaBlank}] : n \in 0..MaxQuestions }

\* The material an orchestrator call is about.
WorkOf(op) ==
  IF op = "generate"
  THEN { [indexedNotes |-> ns, noteContent |-> << >>, qnaPairs |-> << >>] : ns \in NoteLists }
  ELSE { [indexedNotes |-> << >>, noteContent |-> s, qnaPairs |-> ps] :
           s \in SourceTexts, ps \in QnaLists }

Completions ==
  { << >>, TextQuestions, TextQuestionsFenced, TextQuestionsCut, TextMarks,
    TextMarksFenced, TextProse }

Ok200(content, reasoning) ==
  [NoResponse EXCEPT !.status = 200, !.content = content, !.reasoning = reasoning]

\* A non-success response whose body carries an error object.
Failed(status, code, etype, message) ==
  [NoResponse EXCEPT !.status = status, !.code = code, !.etype = etype,
                     !.message = message,
                     !.text = <<"{">> \o code \o <<" ">> \o etype \o <<" ">> \o message \o <<"}">>]

Rejected(emsg) == [NoResponse EXCEPT !.threw = TRUE, !.emsg = emsg]

Responses ==
  { Ok200(t, << >>) : t \in Completions }
  \cup { Ok200(<< >>, Prose) }
  \cup { Failed(400, PhraseContextLengthExceeded, << >>, BodyMaxContext),
         Failed(400, << >>, << >>, BodyMaxContext),
         Failed(400, PhraseContextWindowExceeded, << >>, << >>),
         Failed(400, << >>, PhraseContextLengthExceeded, BodyContextWindow),
         Failed(400, << >>, << >>, BodyTokenLimit),
         Failed(429, << >>, << >>, BodyQuota),
         Failed(500, << >>, << >>, << >>),
         Failed(502, << >>, << >>, NetFetch) }
  \cup { Rejected(NetFetch), Rejected(NetRefused), Rejected(NetStatus400),
         Rejected(NetOverflow) }

\* The calls that may be in flight side by side: one per selected note
\* (createTests) or per answered test (markAllTests).
MaxCalls == 2

Slots == 1..MaxCalls

NoCalls == [s \in Slots |-> IdleCall]

\* What the calls in flight are invoked with: generation with the default
\* OpenAI model, with a chosen one and with the local provider, and grading.
ConcInvocations ==
  { [op |-> "generate", provider |-> NameOpenAI, models |-> [p \in {} |-> << >>],
     work |-> [indexedNotes |-> <<NoteSun>>, noteContent |-> << >>, qnaPairs |-> << >>]],
    [op |-> "generate", provider |-> NameOpenAI, models |-> [p \in {NameOpenAI} |-> ModelO1Mini],
     work |-> [indexedNotes |-> <<NoteSea>>, noteContent |-> << >>, qnaPairs |-> << >>]],
    [op |-> "generate", provider |-> NameOllama, models |-> [p \in {} |-> << >>],
     work |-> [indexedNotes |-> <<NoteSun>>, noteContent |-> << >>, qnaPairs |-> << >>]],
    [op |-> "grade", provider |-> NameAnthropic, models |-> [p \in {} |-> << >>],
     work |-> [indexedNotes |-> << >>, noteContent |-> NoteSun.content,
               qnaPairs |-> <<QnaAnswered>>]] }

\* The outcomes of their requests.
ConcResponses ==
  { Ok200(TextQuestions, << >>), Ok200(TextMarks, << >>),
    Failed(500, << >>, << >>, BodyQuota), Rejected(NetRefused) }

(***************************************************************************)
(* Inputs of the parsers: a body, optionally wrapped in fences and padded  *)
(* with white space.                                                       *)
(***************************************************************************)

MaxPad == 1

NL == <<"\n">>

RECURSIVE Pad(_)
Pad(n) == IF n = 0 THEN << >> ELSE <<" ">> \o Pad(n - 1)

Bodies ==
  { << >>, ObjSmall, ObjNested, ObjBraceInString, ObjCutArray, ObjCutMember, ObjCutFlat,
    ObjCutAfterInner, ObjThenProse, ArrMarks, ArrEmpty, Prose }

LeadingMarks ==
  { << >>, FenceJson \o NL, FenceJson, Fence \o NL, Fence \o TagJs \o NL,
    Fence \o TagJSON \o NL }

TrailingMarks == { << >>, NL \o Fence, Fence }

ParserInputs ==
  [pre : LeadingMarks, body : Bodies, suf : TrailingMarks, lpad : 0..MaxPad, rpad : 0..MaxPad]

NoInput == [pre |-> << >>, body |-> << >>, suf |-> << >>, lpad |-> 0, rpad |-> 0]

\* The raw completion text an input stands for.
RawOf(in) == Pad(in.lpad) \o in.pre \o in.body \o in.suf \o Pad(in.rpad)

NotParsed == [done |-> FALSE, stripped |-> << >>, text |-> << >>, result |-> NoResult]

\* One run of parseTestQuestionsResponse: the text after fence stripping,
\* the text handed to JSON.parse, and the outcome.
RunParseQuestions(rawContent) ==
  LET stripped == StripQuestionsFences(rawContent)
  IN  [done |-> TRUE,
       stripped |-> IF rawContent = << >> THEN << >> ELSE stripped,
       text |-> IF rawContent = << >> THEN << >> ELSE RepairQuestionsJson(stripped),
       result |-> parseTestQuestionsResponse(rawContent)]

\* One run of parseMarkingResponse: likewise; it hands the stripped text
\* to JSON.parse as it is.
RunParseMarking(feedback) ==
  [done |-> TRUE,
   stripped |-> IF feedback = << >> THEN << >> ELSE StripMarkingFences(feedback),
   text |-> IF feedback = << >> THEN << >> ELSE StripMarkingFences(feedback),
   result |-> parseMarkingResponse(feedback)]

(***************************************************************************)
(* Inputs of weight resolution.                                            *)
(***************************************************************************)

MaxDigit == 4

MaxTrail == 1

\* What follows the stem of a question: nothing, a digit in parentheses,
\* or something that only resembles one.
MarkSuffixes ==
  { << >> }
  \cup { <<" ", "(", DigitChar(d), ")">> : d \in 0..MaxDigit }
  \cup { <<"(", "2", ")">>, <<"(", "1", "2", ")">>, <<"(", " ", "2", ")">>, <<"(", "3">>,
         <<"(", "a", ")">>, <<"(", "2", ")", ".">>, <<"[", "2", "]">> }

\* White space after the suffix: up to MaxTrail blanks or line feeds.
Trails == UNION { [1..k -> {" ", "\n"}] : k \in 0..MaxTrail }

QuestionTexts ==
  { stem \o suf \o tr : stem \in {StemPlain, StemInner}, suf \in MarkSuffixes, tr \in Trails }

\* pair.type: a declared type, another string, or absent (empty).
Types == { << >>, TypeShort, TypeLong, TypeExtended, TypeEssay }

Pairs == [question : QuestionTexts, type : Types]

NoPair == [question |-> << >>, type |-> << >>]

(***************************************************************************)
(* Inputs of scoring: a test of up to MaxDocQuestions questions and the    *)
(* array markTestAnswers returned for it, of up to MaxItems items.         *)
(***************************************************************************)

MaxDocQuestions == 3

MaxItems == 3

Graded(questionNumber, marks, maxMarks) ==
  [questionNumber |-> questionNumber, marks |-> marks, maxMarks |-> maxMarks,
   feedback |-> <<"f", DigitChar(marks)>>]

\* Grades for questions 1 to 3, a second grade for question 1, a grade out
\* of nothing, and grades numbered below and above the questions of the
\* test.
SampleGrades ==
  { Graded(1, 2, 2), Graded(2, 1, 3), Graded(3, 0, 1), Graded(1, 0, 2), Graded(2, 0, 0),
    Graded(0, 1, 1), Graded(MaxDocQuestions + 1, 1, 1) }

FeedbackArrays == UNION { [1..k -> SampleGrades] : k \in 0..MaxItems }

NoMarking ==
  [questions |-> 0, feedbackArray |-> << >>, view |-> NotMarked, dash |-> NotMarked]

(***************************************************************************)
(* Inputs of the OpenAI request: model names with and without the         *)
(* reasoning prefixes, and token allowances in steps of 250.               *)
(***************************************************************************)

OpenAIModels ==
  { ModelGpt4o, ModelO1Mini,
    <<"g","p","t","-","4","o","-","m","i","n","i">>,
    <<"o","1">>, <<"o","1","-","p","r","e","v","i","e","w">>,
    <<"o","3","-","m","i","n","i">>, <<"g","p","t","-","5">>,
    <<"g","p","t","-","5","-","m","i","n","i">> }

MaxTokenSteps == 8

TokenAllowances == { 250 * k : k \in 0..MaxTokenSteps }

NoBody ==
  [model |-> << >>, messages |-> << >>, tokenField |-> "none", tokens |-> 0,
   temperature |-> "absent"]

NoRequest ==
  [systemMessage |-> << >>, userPrompt |-> << >>, model |-> << >>, maxTokens |-> 0,
   built |-> FALSE, body |-> NoBody]

(***************************************************************************)
(* The plugin state the views share (main.ts): the settings, the note      *)
(* index and the test documents by note path.  A test document is          *)
(* { description, questions, answers, score?, markResults? }; description  *)
(* and questions are the values read from the parsed completion, answers   *)
(* maps a 0-based question index to the text typed (no entry and an absent *)
(* answers property read the same everywhere: `doc.answers || {}`), score  *)
(* is absent or a number, markResults is absent (empty here) or one entry  *)
(* for each question.                                                      *)
(***************************************************************************)

\* A property that an object does not have.
JUndefined == [t |-> "undefined", v |-> << >>]

\* value.key for a value JSON.parse returned: the member of an object; other
\* values that are not null have no such property.
Prop(value, key) ==
  IF value.t = "obj" /\ \E n \in 1..Len(value.v) : value.v[n].k = key
  THEN value.v[CHOOSE n \in 1..Len(value.v) : value.v[n].k = key].v
  ELSE JUndefined

\* The text of a string value, the empty text for any other value.
TextOf(value) == IF value.t = "str" THEN value.v ELSE << >>

NoScore == [has |-> FALSE, val |-> Rat(0, 1)]

ScoreOf(val) == [has |-> TRUE, val |-> val]

NoAnswers == << >>

\* testDocuments[path] of a path that is not a key.
NoDoc ==
  [exists |-> FALSE, description |-> JUndefined, questions |-> JUndefined,
   answers |-> NoAnswers, score |-> NoScore, markResults |-> << >>]

\* { description, questions, answers: {} }
NewDoc(description, questions) ==
  [NoDoc EXCEPT !.exists = TRUE, !.description = description, !.questions = questions]

\* Object.values(answers).some(answer => answer && answer.trim().length > 0)
hasActualAnswers(answers) == \E i \in DOMAIN answers : Trim(answers[i]) # << >>

\* answers[idx] || ""
AnswerAt(answers, idx) == IF idx \in DOMAIN answers THEN answers[idx] ELSE << >>

\* questions.map((test, idx) => ({ question, answer: answers[idx] || "", type }))
\* for a questions array.
QnaPairsOf(questions, answers) ==
  [k \in 1..Len(questions.v) |->
     [question |-> TextOf(Prop(questions.v[k], <<"q","u","e","s","t","i","o","n">>)),
      answer |-> AnswerAt(answers, k - 1),
      type |-> TextOf(Prop(questions.v[k], <<"t","y","p","e">>))]]

\* indexedNotes.find(n => n.filePath === filePath) finds a note.
Indexed(indexedNotes, filePath) ==
  \E k \in 1..Len(indexedNotes) : indexedNotes[k].filePath = filePath

\* The note it finds.
NoteAt(indexedNotes, filePath) ==
  indexedNotes[CHOOSE k \in 1..Len(indexedNotes) : indexedNotes[k].filePath = filePath]

\* cleanupStaleTestDocuments: the test documents without those whose path
\* is not the path of an indexed note.
cleanupStaleTestDocuments(indexedNotes, testDocuments) ==
  [path \in DOMAIN testDocuments |->
     IF testDocuments[path].exists /\ ~Indexed(indexedNotes, path)
     THEN NoDoc
     ELSE testDocuments[path]]

\* A selection that takes the documents with an answer, marked or not.
testsWithAnswers(testDocuments) ==
  { path \in DOMAIN testDocuments :
      testDocuments[path].exists /\ hasActualAnswers(testDocuments[path].answers) }

\* The documents markAllTests marks: those with an answer that is not blank
\* and no score.
testsToMark(testDocuments) ==
  { path \in DOMAIN testDocuments :
      /\ testDocuments[path].exists
      /\ hasActualAnswers(testDocuments[path].answers)
      /\ ~testDocuments[path].score.has }

\* The feedback array read from the value parseMarkingResponse returned.
GradesOf(value) ==
  [k \in 1..Len(value.v) |->
     [questionNumber |->
        Prop(value.v[k], <<"q","u","e","s","t","i","o","n","N","u","m","b","e","r">>).v,
      marks |-> Prop(value.v[k], <<"m","a","r","k","s">>).v,
      maxMarks |-> Prop(value.v[k], <<"m","a","x","M","a","r","k","s">>).v,
      feedback |-> TextOf(Prop(value.v[k], <<"f","e","e","d","b","a","c","k">>))]]

(***************************************************************************)
(* Inputs of the views: a vault of up to two notes, settings with and      *)
(* without a key, and the responses a generation or a grading request may  *)
(* get.                                                                    *)
(***************************************************************************)

\* '{"description":"d"}'
TextNoQuestions ==
  <<"{","\"","d","e","s","c","r","i","p","t","i","o","n","\"",":","\"","d","\"","}">>

TextNull == <<"n","u","l","l">>

NotePaths == { NoteSun.filePath, NoteSea.filePath }

\* settings: the provider chosen and the keys stored.
SettingsOf(llmProvider, apiKeys) ==
  [llmProvider |-> llmProvider, apiKeys |-> apiKeys,
   models |-> [p \in {} |-> << >>], ollamaSettings |-> << >>]

GenerationResponses ==
  { Ok200(TextQuestions, << >>), Ok200(TextNoQuestions, << >>), Ok200(TextNull, << >>),
    Failed(500, << >>, << >>, << >>) }

GradingResponses == { Ok200(TextMarks, << >>), Failed(500, << >>, << >>, << >>) }

\* What the user types into the answer box of a question.
TypedAnswers == { <<"h","o","t">> }

\* The test document generated from TextQuestions.
DocSample ==
  LET res == JSONparse(TextQuestions).val
  IN  NewDoc(Prop(res, <<"d","e","s","c","r","i","p","t","i","o","n">>),
             Prop(res, <<"q","u","e","s","t","i","o","n","s">>))

\* The test documents loaded from the data file: none, or a document for
\* each of the two notes, the first with an answer, the second with a
\* blank one.
NoDocuments == [path \in NotePaths |-> NoDoc]

AnsweredDocuments ==
  [path \in NotePaths |->
     [DocSample EXCEPT !.answers = [i \in {0} |-> IF path = NoteSun.filePath
                                                  THEN <<"h","o","t">> ELSE <<" ">>]]]

\* The same, the first marked at the dashboard with 1 mark out of 1 and
\* the second answered since.
MarkedDocuments ==
  [path \in NotePaths |->
     IF path = NoteSun.filePath
     THEN [DocSample EXCEPT
             !.answers = [i \in {0} |-> <<"h","o","t">>],
             !.score = ScoreOf(Rat(100, 1)),
             !.markResults = << [set |-> TRUE, marks |-> 1, maxMarks |-> 1,
                                 feedback |-> <<"o","k">>] >>]
     ELSE [DocSample EXCEPT !.answers = [i \in {0} |-> <<"h","o","t">>]]]

\* What the plugin starts from: the vault, the settings and the test
\* documents loaded.  A first start with a key; tests taken with a cloud
\* provider with and without its key and with the local provider; a test
\* marked and another answered; tests taken and the second note deleted
\* since.
Installations ==
  { [vault |-> <<NoteSun, NoteSea>>, docs |-> NoDocuments,
     settings |-> SettingsOf(NameOpenAI, [p \in {NameOpenAI} |-> SomeKey])],
    [vault |-> <<NoteSun, NoteSea>>, docs |-> AnsweredDocuments,
     settings |-> SettingsOf(NameOpenAI, [p \in {NameOpenAI} |-> SomeKey])],
    [vault |-> <<NoteSun, NoteSea>>, docs |-> AnsweredDocuments,
     settings |-> SettingsOf(NameOpenAI, [p \in {} |-> << >>])],
    [vault |-> <<NoteSun, NoteSea>>, docs |-> AnsweredDocuments,
     settings |-> SettingsOf(NameOllama, [p \in {} |-> << >>])],
    [vault |-> <<NoteSun, NoteSea>>, docs |-> MarkedDocuments,
     settings |-> SettingsOf(NameOpenAI, [p \in {NameOpenAI} |-> SomeKey])],
    [vault |-> <<NoteSun>>, docs |-> AnsweredDocuments,
     settings |-> SettingsOf(NameOpenAI, [p \in {NameOpenAI} |-> SomeKey])] }

\* A task of createTests or markAllTests, or the call of
\* handleMarkButtonClick: the orchestrator call it awaits, and for a
\* marking task the document state it read when it started.
NoTask == [call |-> IdleCall, docState |-> NoDoc]

\* An orchestrator call as a task holds it: the views read neither the
\* material it was called with nor its prompt.
Awaited(c) == [c EXCEPT !.work = IdleCall.work, !.userPrompt = << >>]

\* A call that has ended, with what the caller observes of it.
Ended(c) == [IdleCall EXCEPT !.pc = "done", !.requests = c.requests, !.result = c.result]

NoPlugin ==
  [settings |-> SettingsOf(<< >>, [p \in {} |-> << >>]), indexedNotes |-> << >>,
   testDocuments |-> [path \in NotePaths |-> NoDoc],
   saved |-> [path \in NotePaths |-> NoDoc]]

\* The dashboard: pluginData and isRefreshing; where handleRefresh stands
\* (the files indexTestNotes is going through, the one it reads next, the
\* runs in flight); where createTests and markAllTests stand and their
\* tasks by note path.
NoDashboard ==
  [pluginData |-> << >>, isRefreshing |-> FALSE,
   refresh |-> [pc |-> "idle", files |-> << >>, next |-> 0, running |-> 0],
   create |-> [pc |-> "idle", boxes |-> {}],
   generation |-> [path \in NotePaths |-> NoTask],
   markAll |-> [pc |-> "idle"],
   marking |-> [path \in NotePaths |-> NoTask]]

\* The question document: its fields, and the marking call in flight.
NoQuestionView ==
  [open |-> FALSE, filePath |-> << >>, description |-> JUndefined,
   generatedTests |-> JUndefined, answers |-> NoAnswers, markResults |-> << >>,
   scoreSummary |-> FALSE, mark |-> NoTask]

(***************************************************************************)
(* State.                                                                  *)
(***************************************************************************)

VARIABLES
  call,     \* the orchestrator call in progress
  input,    \* the completion text given to the parsers
  q,        \* the run of parseTestQuestionsResponse on it
  m,        \* the run of parseMarkingResponse on it
  pair,     \* a qnaPairs entry
  weight,   \* the maxMarks resolved for it (0: not resolved yet)
  calls,    \* the orchestrator calls in flight side by side, by slot
  marking,  \* a test, the grades returned for it, what each marking site stored
  request,  \* a call of the OpenAI adapter and the request body it built
  vault,    \* the markdown files of the vault
  plugin,   \* settings, note index, test documents and the data file
  dashboard,     \* the dashboard view and its runs
  questionView   \* the question document view

\* The state of the services and the state of the views.
services == <<call, input, q, m, pair, weight, calls, marking, request>>

views == <<vault, plugin, dashboard, questionView>>

vars == <<services, views>>

(***************************************************************************)
(* Spec: calls of the two orchestrators, one after the other.              *)
(***************************************************************************)

Init ==
  /\ call = IdleCall
  /\ input = NoInput /\ q = NotParsed /\ m = NotParsed
  /\ pair = NoPair /\ weight = 0
  /\ calls = NoCalls
  /\ marking = NoMarking
  /\ request = NoRequest
  /\ vault = << >>
  /\ plugin = NoPlugin
  /\ dashboard = NoDashboard
  /\ questionView = NoQuestionView

\* The UI calls generateTestQuestions or markTestAnswers; the call runs to
\* its first await or to its first throw.
Invoke ==
  /\ call.pc = "idle"
  /\ \E op \in Ops, provider \in Providers, apiKeys \in KeyMaps, models \in ModelMaps,
        url \in OllamaUrls :
       \E work \in WorkOf(op) :
         call' = StartCall(op, provider, apiKeys, models, url, work)
  /\ UNCHANGED <<input, q, m, pair, weight, calls, marking, request, views>>

\* The request settles and the call runs to its end.
Respond ==
  /\ call.pc = "awaiting"
  /\ \E response \in Responses : call' = FinishCall(call, response)
  /\ UNCHANGED <<input, q, m, pair, weight, calls, marking, request, views>>

\* The caller has taken the outcome.
Settle ==
  /\ call.pc = "done"
  /\ call' = IdleCall
  /\ UNCHANGED <<input, q, m, pair, weight, calls, marking, request, views>>

Next == Invoke \/ Respond \/ Settle

Spec == Init /\ [][Next]_vars

(***************************************************************************)
(* SpecParse: the two parsers applied to a completion text.                *)
(***************************************************************************)

InitParse ==
  /\ input \in ParserInputs
  /\ q = NotParsed /\ m = NotParsed
  /\ call = IdleCall /\ pair = NoPair /\ weight = 0
  /\ calls = NoCalls
  /\ marking = NoMarking
  /\ request = NoRequest
  /\ vault = << >>
  /\ plugin = NoPlugin
  /\ dashboard = NoDashboard
  /\ questionView = NoQuestionView

ParseQuestions ==
  /\ ~q.done
  /\ q' = RunParseQuestions(RawOf(input))
  /\ UNCHANGED <<call, input, m, pair, weight, calls, marking, request, views>>

ParseMarking ==
  /\ ~m.done
  /\ m' = RunParseMarking(RawOf(input))
  /\ UNCHANGED <<call, input, q, pair, weight, calls, marking, request, views>>

NextParse == ParseQuestions \/ ParseMarking

SpecParse == InitParse /\ [][NextParse]_vars

(***************************************************************************)
(* SpecWeight: weight resolution applied to a qnaPairs entry.              *)
(***************************************************************************)

InitWeight ==
  /\ pair \in Pairs
  /\ weight = 0
  /\ call = IdleCall /\ input = NoInput /\ q = NotParsed /\ m = NotParsed
  /\ calls = NoCalls
  /\ marking = NoMarking
  /\ request = NoRequest
  /\ vault = << >>
  /\ plugin = NoPlugin
  /\ dashboard = NoDashboard
  /\ questionView = NoQuestionView

Resolve ==
  /\ weight = 0
  /\ weight' = ResolveMaxMarks(pair)
  /\ UNCHANGED <<call, input, q, m, pair, calls, marking, request, views>>

NextWeight == Resolve

SpecWeight == InitWeight /\ [][NextWeight]_vars

(***************************************************************************)
(* SpecConc: calls of the orchestrators in flight side by side.  Each runs *)
(* without interruption up to its await and from its await to its end.    *)
(***************************************************************************)

InitConc ==
  /\ calls = NoCalls
  /\ call = IdleCall
  /\ input = NoInput /\ q = NotParsed /\ m = NotParsed
  /\ pair = NoPair /\ weight = 0
  /\ marking = NoMarking
  /\ request = NoRequest
  /\ vault = << >>
  /\ plugin = NoPlugin
  /\ dashboard = NoDashboard
  /\ questionView = NoQuestionView

\* A task calls an orchestrator while others may be awaiting theirs.
InvokeTask ==
  /\ \E s \in Slots, a \in ConcInvocations, apiKeys \in KeyMaps \ {[p \in {} |-> << >>]} :
       /\ calls[s].pc = "idle"
       /\ calls' = [calls EXCEPT ![s] = StartCall(a.op, a.provider, apiKeys, a.models,
                                                  << >>, a.work)]
  /\ UNCHANGED <<call, input, q, m, pair, weight, marking, request, views>>

\* A request settles and its call resumes with the request's outcome, using
\* the provider another call was invoked with.
RespondTaskCrossed ==
  /\ \E s \in Slots, o \in Slots, response \in ConcResponses :
       /\ calls[s].pc = "awaiting"
       /\ calls' = [calls EXCEPT ![s] =
                      [FinishCall([calls[s] EXCEPT !.provider = calls[o].provider], response)
                         EXCEPT !.provider = calls[s].provider]]
  /\ UNCHANGED <<call, input, q, m, pair, weight, marking, request, views>>

\* A request settles and its call resumes with the request's outcome.
RespondTask ==
  /\ \E s \in Slots, response \in ConcResponses :
       /\ calls[s].pc = "awaiting"
       /\ calls' = [calls EXCEPT ![s] = FinishCall(calls[s], response)]
  /\ UNCHANGED <<call, input, q, m, pair, weight, marking, request, views>>

\* A task has taken the outcome of its call.
SettleTask ==
  /\ \E s \in Slots :
       /\ calls[s].pc = "done"
       /\ calls' = [calls EXCEPT ![s] = IdleCall]
  /\ UNCHANGED <<call, input, q, m, pair, weight, marking, request, views>>

NextConc == InvokeTask \/ RespondTask \/ SettleTask

SpecConc == InitConc /\ [][NextConc]_vars

(***************************************************************************)
(* SpecMark: one test and one grading response, scored at both sites.      *)
(***************************************************************************)

InitMark ==
  /\ \E length \in 0..MaxDocQuestions, feedbackArray \in FeedbackArrays :
       marking = [NoMarking EXCEPT !.questions = length, !.feedbackArray = feedbackArray]
  /\ call = IdleCall
  /\ input = NoInput /\ q = NotParsed /\ m = NotParsed
  /\ pair = NoPair /\ weight = 0
  /\ calls = NoCalls
  /\ request = NoRequest
  /\ vault = << >>
  /\ plugin = NoPlugin
  /\ dashboard = NoDashboard
  /\ questionView = NoQuestionView

\* Mark in the question view: the grades have arrived and are stored.
handleMarkButtonClick ==
  /\ ~marking.view.done
  /\ marking' = [marking EXCEPT !.view = ViewMarked(marking.questions, marking.feedbackArray)]
  /\ UNCHANGED <<call, input, q, m, pair, weight, calls, request, views>>

\* Mark all tests in the dashboard: the grades have arrived and are stored.
markAllTests ==
  /\ ~marking.dash.done
  /\ marking' = [marking EXCEPT !.dash = DashMarked(marking.questions, marking.feedbackArray)]
  /\ UNCHANGED <<call, input, q, m, pair, weight, calls, request, views>>

NextMark == handleMarkButtonClick \/ markAllTests

SpecMark == InitMark /\ [][NextMark]_vars

(***************************************************************************)
(* SpecRequest: the request body callOpenAI builds.                        *)
(***************************************************************************)

InitRequest ==
  /\ \E model \in OpenAIModels, maxTokens \in TokenAllowances :
       request = [NoRequest EXCEPT !.systemMessage = <<"S">>, !.userPrompt = <<"U">>,
                                   !.model = model, !.maxTokens = maxTokens]
  /\ call = IdleCall
  /\ input = NoInput /\ q = NotParsed /\ m = NotParsed
  /\ pair = NoPair /\ weight = 0
  /\ calls = NoCalls
  /\ marking = NoMarking
  /\ vault = << >>
  /\ plugin = NoPlugin
  /\ dashboard = NoDashboard
  /\ questionView = NoQuestionView

\* callOpenAI up to its requestUrl: the body of the request is built.
BuildOpenAIRequest ==
  /\ ~request.built
  /\ request' = [request EXCEPT !.built = TRUE,
                                !.body = OpenAIRequestBody(request.systemMessage,
                                                           request.userPrompt,
                                                           request.model, request.maxTokens)]
  /\ UNCHANGED <<call, input, q, m, pair, weight, calls, marking, views>>

NextRequest == BuildOpenAIRequest

SpecRequest == InitRequest /\ [][NextRequest]_vars

(***************************************************************************)
(* The dashboard and the question document at work on the plugin state     *)
(* (SpecDashboard, SpecQuestion).  Every handler runs to its next await in *)
(* one step; what it awaits (a file read, a write of the data file, a      *)
(* request of an orchestrator) settles in a later step, so the handlers    *)
(* interleave as they do on the event loop.  The model follows one run of  *)
(* createTests or of markAllTests and one question document at a time.     *)
(***************************************************************************)

\* saveSettings: the data file takes the test documents as they are.
saveSettings(pl) == [pl EXCEPT !.saved = pl.testDocuments]

\* A guard that lets every call of handleRefresh through.
RefreshNeverInFlight(d) == FALSE

\* The guard of handleRefresh.
RefreshInFlight(d) == d.isRefreshing

InitViews ==
  /\ \E start \in Installations :
       /\ vault = start.vault
       /\ plugin = [NoPlugin EXCEPT
                      !.settings = start.settings,
                      !.indexedNotes = IF start.docs = NoDocuments THEN << >>
                                       ELSE <<NoteSun, NoteSea>>,
                      !.testDocuments = start.docs,
                      !.saved = start.docs]
  /\ dashboard = [NoDashboard EXCEPT !.pluginData = plugin.indexedNotes]
  /\ questionView = NoQuestionView
  /\ call = IdleCall
  /\ input = NoInput /\ q = NotParsed /\ m = NotParsed
  /\ pair = NoPair /\ weight = 0
  /\ calls = NoCalls
  /\ marking = NoMarking
  /\ request = NoRequest

\* The finally block of handleRefresh.
RefreshEnded(d) ==
  [d EXCEPT !.isRefreshing = FALSE,
            !.refresh = [pc |-> "idle", files |-> << >>, next |-> 0,
                         running |-> d.refresh.running - 1]]

\* handleRefresh up to the first await of indexTestNotes: nothing when a
\* refresh is in flight; else isRefreshing is set, the index is emptied and
\* the first file is being read (or, without files, the data file written).
handleRefresh ==
  /\ IF RefreshInFlight(dashboard)
     THEN UNCHANGED <<plugin, dashboard>>
     ELSE /\ plugin' = IF vault = << >>
                       THEN saveSettings([plugin EXCEPT !.indexedNotes = << >>])
                       ELSE [plugin EXCEPT !.indexedNotes = << >>]
          /\ dashboard' =
               [dashboard EXCEPT
                  !.isRefreshing = TRUE,
                  !.refresh = [pc |-> IF vault = << >> THEN "saving" ELSE "reading",
                               files |-> vault, next |-> 1,
                               running |-> dashboard.refresh.running + 1]]
  /\ UNCHANGED <<services, vault, questionView>>

\* The read of a file settles: its note is pushed and the next file is
\* read or, after the last one, the data file is written; a read that
\* fails ends the refresh in the catch and finally blocks of handleRefresh.
indexTestNotesRead ==
  /\ dashboard.refresh.pc = "reading"
  /\ \E read \in BOOLEAN :
       LET r == dashboard.refresh
           pushed == [plugin EXCEPT !.indexedNotes = Append(@, r.files[r.next])]
       IN  IF ~read
           THEN /\ dashboard' = RefreshEnded(dashboard)
                /\ UNCHANGED plugin
           ELSE IF r.next < Len(r.files)
           THEN /\ plugin' = pushed
                /\ dashboard' = [dashboard EXCEPT !.refresh.next = r.next + 1]
           ELSE /\ plugin' = saveSettings(pushed)
                /\ dashboard' = [dashboard EXCEPT !.refresh.pc = "saving"]
  /\ UNCHANGED <<services, vault, questionView>>

\* The write that ends indexTestNotes settles: the dashboard takes the new
\* index, handleRefresh runs cleanupStaleTestDocuments and, when nothing
\* was stale, ends; else it awaits the write of the cleanup.
indexTestNotesSaved ==
  /\ dashboard.refresh.pc = "saving"
  /\ LET kept == cleanupStaleTestDocuments(plugin.indexedNotes, plugin.testDocuments)
         shown == [dashboard EXCEPT !.pluginData = plugin.indexedNotes]
     IN  IF kept = plugin.testDocuments
         THEN /\ dashboard' = RefreshEnded(shown)
              /\ UNCHANGED plugin
         ELSE /\ plugin' = saveSettings([plugin EXCEPT !.testDocuments = kept])
              /\ dashboard' = [shown EXCEPT !.refresh.pc = "cleaning"]
  /\ UNCHANGED <<services, vault, questionView>>

\* The write of the cleanup settles and handleRefresh ends.
handleRefreshCleaned ==
  /\ dashboard.refresh.pc = "cleaning"
  /\ dashboard' = RefreshEnded(dashboard)
  /\ UNCHANGED <<services, vault, plugin, questionView>>

\* The key check of createTests and of markAllTests.
DashboardKeyMissing(settings) ==
  settings.llmProvider # NameOllama
  /\ getApiKey(settings.llmProvider, settings.apiKeys) = << >>

\* The tasks createTests starts: for every checked box whose note is in
\* pluginData, a call of generateTestQuestions for that note alone.
GenerationTasks(boxes, pluginData, settings) ==
  [path \in NotePaths |->
     IF path \in boxes /\ Indexed(pluginData, path)
     THEN [NoTask EXCEPT
             !.call = Awaited(StartCall("generate", settings.llmProvider, settings.apiKeys,
                                        settings.models, settings.ollamaSettings,
                                        [indexedNotes |-> <<NoteAt(pluginData, path)>>,
                                         noteContent |-> << >>, qnaPairs |-> << >>]))]
     ELSE NoTask]

\* createTests for the checked boxes, up to its first await: nothing
\* without the key; else the cleanup and, when nothing was stale, the
\* tasks; when something was, the write of the cleanup is awaited first.
createTests ==
  /\ dashboard.create.pc = "idle" /\ dashboard.markAll.pc = "idle"
  /\ \E boxes \in (SUBSET { dashboard.pluginData[k].filePath :
                              k \in 1..Len(dashboard.pluginData) }) \ {{}} :
       LET kept == cleanupStaleTestDocuments(plugin.indexedNotes, plugin.testDocuments)
       IN  IF DashboardKeyMissing(plugin.settings)
           THEN UNCHANGED <<plugin, dashboard>>
           ELSE IF kept = plugin.testDocuments
           THEN /\ dashboard' =
                     [dashboard EXCEPT
                        !.create = [pc |-> "running", boxes |-> boxes],
                        !.generation = GenerationTasks(boxes, dashboard.pluginData,
                                                       plugin.settings)]
                /\ UNCHANGED plugin
           ELSE /\ plugin' = saveSettings([plugin EXCEPT !.testDocuments = kept])
                /\ dashboard' = [dashboard EXCEPT
                                   !.create = [pc |-> "cleaning", boxes |-> boxes]]
  /\ UNCHANGED <<services, vault, questionView>>

\* The write of the cleanup settles and createTests starts its tasks.
createTestsCleaned ==
  /\ dashboard.create.pc = "cleaning"
  /\ dashboard' =
       [dashboard EXCEPT
          !.create.pc = "running",
          !.generation = GenerationTasks(dashboard.create.boxes, dashboard.pluginData,
                                         plugin.settings)]
  /\ UNCHANGED <<services, vault, plugin, questionView>>

\* What a task of createTests stores for the value generateTestQuestions
\* returned: { description: res.description, questions: res.questions,
\* answers: {} }.
GeneratedDoc(res) ==
  NewDoc(Prop(res, <<"d","e","s","c","r","i","p","t","i","o","n">>),
         Prop(res, <<"q","u","e","s","t","i","o","n","s">>))

\* A try block that is taken to go through whatever the call did.
GenerationNeverThrows(result) == FALSE

\* The try block of a task of createTests throws: the call threw, or it
\* returned null, which has no property to read.
GenerationThrows(result) == result.tag = "err" \/ result.val.t = "null"

\* The request of a task of createTests settles: the document of its note
\* is replaced and the data file written, or the catch block leaves the
\* documents alone.
createTestsTask ==
  /\ \E path \in NotePaths, response \in GenerationResponses :
       /\ dashboard.generation[path].call.pc = "awaiting"
       /\ LET c == FinishCall(dashboard.generation[path].call, response)
          IN  /\ dashboard' = [dashboard EXCEPT !.generation[path].call = Ended(c)]
              /\ plugin' = IF GenerationThrows(c.result) THEN plugin
                           ELSE saveSettings([plugin EXCEPT !.testDocuments[path] =
                                                              GeneratedDoc(c.result.val)])
  /\ UNCHANGED <<services, vault, questionView>>

\* Promise.all of createTests settles once no task is awaiting: the boxes
\* are unchecked.
createTestsDone ==
  /\ dashboard.create.pc = "running"
  /\ \A path \in NotePaths : dashboard.generation[path].call.pc # "awaiting"
  /\ dashboard' = [dashboard EXCEPT
                     !.create = [pc |-> "idle", boxes |-> {}],
                     !.generation = [path \in NotePaths |-> NoTask]]
  /\ UNCHANGED <<services, vault, plugin, questionView>>

\* A task that ended without a request: its try block threw or returned a
\* failure before markTestAnswers was called.
EndedTask(docState) ==
  [call |-> [IdleCall EXCEPT !.pc = "done", !.result = Throw(Error(<< >>))],
   docState |-> docState]

\* A call of markTestAnswers for a test document and its note; qnaPairs
\* stays with it, the constant of the caller it was built into.
GradingCall(settings, models, ollamaSettings, note, questions, answers) ==
  LET qnaPairs == QnaPairsOf(questions, answers)
  IN  [Awaited(StartCall("grade", settings.llmProvider, settings.apiKeys, models,
                         ollamaSettings,
                         [indexedNotes |-> << >>, noteContent |-> note.content,
                          qnaPairs |-> qnaPairs]))
         EXCEPT !.work.qnaPairs = qnaPairs]

\* One of the promises markAllTests maps the tests to mark to, up to its
\* await: the document state is read, and markTestAnswers is called
\* unless the questions cannot be mapped or no answer is left to mark.
MarkingTask(path, pl) ==
  LET docState == pl.testDocuments[path]
  IN  IF \/ ~Indexed(pl.indexedNotes, path)
         \/ docState.questions.t # "arr"
         \/ ~hasActualAnswers(docState.answers)
      THEN EndedTask(docState)
      ELSE [call |-> GradingCall(pl.settings, pl.settings.models, pl.settings.ollamaSettings,
                                 NoteAt(pl.indexedNotes, path),
                                 docState.questions, docState.answers),
            docState |-> docState]

\* markAllTests after its cleanup, up to Promise.all: nothing when no test
\* is to be marked or one of them is missing from the index; else all the
\* marking promises are started.
MarkAllStarted(d, pl) ==
  LET toMark == testsToMark(pl.testDocuments)
  IN  IF toMark = {} \/ \E path \in toMark : ~Indexed(pl.indexedNotes, path)
      THEN [d EXCEPT !.markAll.pc = "idle"]
      ELSE [d EXCEPT !.markAll.pc = "running",
                     !.marking = [path \in NotePaths |->
                                    IF path \in toMark THEN MarkingTask(path, pl)
                                    ELSE NoTask]]

\* markAllTests up to its first await: nothing without the key; else the
\* cleanup and, when nothing was stale, the marking promises.
markAllTestsStart ==
  /\ dashboard.markAll.pc = "idle" /\ dashboard.create.pc = "idle"
  /\ LET kept == cleanupStaleTestDocuments(plugin.indexedNotes, plugin.testDocuments)
     IN  IF DashboardKeyMissing(plugin.settings)
         THEN UNCHANGED <<plugin, dashboard>>
         ELSE IF kept = plugin.testDocuments
         THEN /\ dashboard' = MarkAllStarted(dashboard, plugin)
              /\ UNCHANGED plugin
         ELSE /\ plugin' = saveSettings([plugin EXCEPT !.testDocuments = kept])
              /\ dashboard' = [dashboard EXCEPT !.markAll.pc = "cleaning"]
  /\ UNCHANGED <<services, vault, questionView>>

\* The write of the cleanup settles and markAllTests goes on.
markAllTestsCleaned ==
  /\ dashboard.markAll.pc = "cleaning"
  /\ dashboard' = MarkAllStarted(dashboard, plugin)
  /\ UNCHANGED <<services, vault, plugin, questionView>>

\* The try block of a marking throws: the call threw, or what it returned
\* is no array.
MarkingThrows(result) == result.tag = "err" \/ result.val.t # "arr"

\* { ...testDocuments[filePath], score, markResults } and, at the question
\* document, answers.
WithMarks(doc, marked, answers) ==
  [doc EXCEPT !.exists = TRUE, !.score = ScoreOf(marked.score),
              !.markResults = marked.markResults, !.answers = answers]

\* The request of a marking promise settles: the score and the mark results
\* are put on the document the path has now, or the catch block leaves the
\* documents alone.
markAllTestsTask ==
  /\ \E path \in NotePaths, response \in GradingResponses :
       /\ dashboard.marking[path].call.pc = "awaiting"
       /\ LET task == dashboard.marking[path]
              c == FinishCall(task.call, response)
              doc == plugin.testDocuments[path]
          IN  /\ dashboard' = [dashboard EXCEPT !.marking[path].call = Ended(c)]
              /\ plugin' =
                   IF MarkingThrows(c.result) THEN plugin
                   ELSE [plugin EXCEPT !.testDocuments[path] =
                           WithMarks(doc, DashMarked(Len(task.docState.questions.v),
                                                     GradesOf(c.result.val)),
                                     doc.answers)]
  /\ UNCHANGED <<services, vault, questionView>>

\* Promise.all of markAllTests settles once no promise is awaiting: the
\* data file is written.
markAllTestsDone ==
  /\ dashboard.markAll.pc = "running"
  /\ \A path \in NotePaths : dashboard.marking[path].call.pc # "awaiting"
  /\ plugin' = saveSettings(plugin)
  /\ dashboard' = [dashboard EXCEPT !.markAll.pc = "idle",
                                    !.marking = [path \in NotePaths |-> NoTask]]
  /\ UNCHANGED <<services, vault, questionView>>

\* openQuestionDoc: a question document is opened on the test document of
\* the path, with its answers and, when it has any, its mark results.
openQuestionDoc ==
  /\ questionView.mark.call.pc # "awaiting"
  /\ \E filePath \in NotePaths :
       LET response == plugin.testDocuments[filePath]
       IN  IF ~response.exists
           THEN UNCHANGED questionView
           ELSE questionView' =
                  [NoQuestionView EXCEPT
                     !.open = TRUE, !.filePath = filePath,
                     !.description = response.description,
                     !.generatedTests = response.questions,
                     !.answers = response.answers,
                     !.markResults = response.markResults,
                     !.scoreSummary = response.markResults # << >> /\ response.score.has]
  /\ UNCHANGED <<services, vault, plugin, dashboard>>

\* The question document shows its questions, their answer boxes and the
\* Mark and Reset buttons: generatedTests?.length is truthy.
ShowsQuestions(v) ==
  v.open /\ v.generatedTests.t \in {"arr", "str"} /\ Len(v.generatedTests.v) > 0

\* if (!testDocuments[filePath]) testDocuments[filePath] = { description, questions, answers: {} }
EnsureDoc(doc, v) == IF doc.exists THEN doc ELSE NewDoc(v.description, v.generatedTests)

\* The input handler of an answer box and saveAnswers: the answer is kept
\* in the view and the answers are stored on the document and saved.
saveAnswers ==
  /\ ShowsQuestions(questionView)
  /\ \E index \in 0..(Len(questionView.generatedTests.v) - 1), value \in TypedAnswers :
       LET answers == [i \in DOMAIN questionView.answers \cup {index} |->
                         IF i = index THEN value ELSE questionView.answers[i]]
           fp == questionView.filePath
       IN  /\ questionView' = [questionView EXCEPT !.answers = answers]
           /\ plugin' =
                saveSettings([plugin EXCEPT !.testDocuments[fp] =
                                [EnsureDoc(@, questionView) EXCEPT !.answers = answers]])
  /\ UNCHANGED <<services, vault, dashboard>>

\* What handleResetButtonClick leaves of the stored document: its answers
\* are emptied and its score deleted.
ResetDoc(doc, v) == [EnsureDoc(doc, v) EXCEPT !.answers = NoAnswers, !.score = NoScore]

\* handleResetButtonClick: answers, mark results and summary of the view
\* are cleared, the stored document is reset and saved.
handleResetButtonClick ==
  /\ ShowsQuestions(questionView)
  /\ questionView' = [questionView EXCEPT !.answers = NoAnswers, !.markResults = << >>,
                                          !.scoreSummary = FALSE]
  /\ plugin' = saveSettings([plugin EXCEPT !.testDocuments[questionView.filePath] =
                                             ResetDoc(@, questionView)])
  /\ UNCHANGED <<services, vault, dashboard>>

\* The key check of handleMarkButtonClick.
ViewKeyMissing(settings) == getApiKey(settings.llmProvider, settings.apiKeys) = << >>

\* handleMarkButtonClick up to its await: nothing when the note is not
\* indexed or the key check fails; else markTestAnswers is called with the
\* note, the questions and the answers of the view.
handleMarkButtonClickStart ==
  /\ ShowsQuestions(questionView)
  /\ questionView.mark.call.pc # "awaiting"
  /\ IF \/ ~Indexed(plugin.indexedNotes, questionView.filePath)
        \/ ViewKeyMissing(plugin.settings)
        \/ questionView.generatedTests.t # "arr"
     THEN UNCHANGED questionView
     ELSE questionView' =
            [questionView EXCEPT
               !.mark = [NoTask EXCEPT
                           !.call = GradingCall(plugin.settings, [p \in {} |-> << >>], << >>,
                                                NoteAt(plugin.indexedNotes,
                                                       questionView.filePath),
                                                questionView.generatedTests,
                                                questionView.answers)]]
  /\ UNCHANGED <<services, vault, plugin, dashboard>>

\* The request of handleMarkButtonClick settles: the view takes the mark
\* results and the summary, the document takes score, mark results and the
\* answers of the view and is saved; or the catch block leaves all alone.
handleMarkButtonClickDone ==
  /\ questionView.mark.call.pc = "awaiting"
  /\ \E response \in GradingResponses :
       LET c == FinishCall(questionView.mark.call, response)
           fp == questionView.filePath
           marked == ViewMarked(Len(questionView.generatedTests.v), GradesOf(c.result.val))
       IN  IF MarkingThrows(c.result)
           THEN /\ questionView' = [questionView EXCEPT !.mark = NoTask]
                /\ UNCHANGED plugin
           ELSE /\ questionView' = [questionView EXCEPT !.mark = NoTask,
                                                        !.markResults = marked.markResults,
                                                        !.scoreSummary = TRUE]
                /\ plugin' =
                     saveSettings([plugin EXCEPT !.testDocuments[fp] =
                                     WithMarks(EnsureDoc(@, questionView), marked,
                                               questionView.answers)])
  /\ UNCHANGED <<services, vault, dashboard>>

\* The dashboard alone: refreshes, runs of createTests and of markAllTests.
NextDashboard ==
  \/ handleRefresh \/ indexTestNotesRead \/ indexTestNotesSaved \/ handleRefreshCleaned
  \/ createTests \/ createTestsCleaned \/ createTestsTask \/ createTestsDone
  \/ markAllTestsStart \/ markAllTestsCleaned \/ markAllTestsTask \/ markAllTestsDone

SpecDashboard == InitViews /\ [][NextDashboard]_vars

\* The question document next to runs of markAllTests, the index at rest.
NextQuestion ==
  \/ openQuestionDoc \/ saveAnswers
  \/ handleResetButtonClick
  \/ handleMarkButtonClickStart \/ handleMarkButtonClickDone
  \/ markAllTestsStart \/ markAllTestsTask \/ markAllTestsDone

SpecQuestion == InitViews /\ [][NextQuestion]_vars

(***************************************************************************)
(* The error kinds of the specification, as the callers tell them apart:   *)
(* by class for ContextLengthExceeded, by message for the others.          *)
(***************************************************************************)

CloudProviders == SupportedProviders \ {NameOllama}

IsMissingCredentials(e) == e.cls = "Error" /\ StartsWith(e.msg, MsgMissingKeyHead)

IsContextLengthExceeded(e) == e.cls = "ContextLengthExceededError"

\* What createTests tests for (message includes 'Failed to parse JSON'),
\* and the message parseMarkingResponse raises on a parse failure.
IsUnparseable(e) ==
  e.cls = "Error" /\ (Includes(e.msg, PhraseFailedToParseJSON) \/ e.msg = MsgParseMarkingFailed)

\* A wrapper error naming the provider and holding the message of its cause.
IsProviderCallFailed(e, provider, cause) ==
  /\ e.cls = "ProviderCallFailed"
  /\ Includes(e.msg, provider)
  /\ Includes(e.msg, cause.msg)

MentionsOverflow(msg) ==
  Includes(msg, PhraseContextLengthExceeded) \/ Includes(msg, PhraseMaximumContextLength)

(***************************************************************************)
(* Claims about the orchestrators (Spec).                                  *)
(***************************************************************************)

\* C1: a call with a cloud provider and an empty API key has failed with
\* MissingCredentials without having issued any request; a call with the
\* ollama provider and an empty API key has not failed for that reason and
\* has gone on to the adapter (its request is issued).
C1_CredentialGating ==
  call.pc # "idle" =>
    /\ (call.provider \in CloudProviders /\ call.apiKey = << >>) =>
         /\ call.pc = "done"
         /\ call.result.tag = "err"
         /\ IsMissingCredentials(call.result.err)
         /\ call.requests = 0
    /\ (call.provider = NameOllama /\ call.apiKey = << >>) =>
         /\ ~IsMissingCredentials(call.result.err)
         /\ call.requests = 1

C1_Witness ==
  /\ call.pc = "done" /\ call.op = "grade"
  /\ call.provider = NameAnthropic /\ call.apiKey = << >>
  /\ IsMissingCredentials(call.result.err)

\* C2: a ContextLengthExceeded thrown by the adapter, and an
\* UnparseableResponse thrown by the parser on the text the adapter
\* returned, is what the caller observes: the same class and the same
\* message.
C2_PassThrough ==
  call.pc = "done" =>
    /\ (call.adapter.tag = "err" /\ IsContextLengthExceeded(call.adapter.err))
         => call.result = Throw(call.adapter.err)
    /\ (call.adapter.tag = "ok" /\ call.inner.tag = "err" /\ IsUnparseable(call.inner.err))
         => call.result = call.inner

C2_Witness ==
  /\ call.pc = "done" /\ call.op = "generate"
  /\ call.adapter.tag = "err"
  /\ IsContextLengthExceeded(call.adapter.err)
  /\ call.result.err = call.adapter.err

\* C3 as stated: a failure of the adapter other than ContextLengthExceeded
\* and UnparseableResponse reaches the caller wrapped as ProviderCallFailed
\* naming the provider and holding the cause.
C3_Original ==
  (/\ call.pc = "done"
   /\ call.adapter.tag = "err"
   /\ ~IsContextLengthExceeded(call.adapter.err)
   /\ ~IsUnparseable(call.adapter.err))
  => /\ call.result.tag = "err"
     /\ IsProviderCallFailed(call.result.err, call.provider, call.adapter.err)

\* C3 as amended: a failure of the adapter other than ContextLengthExceeded
\* and UnparseableResponse reaches the caller as the error the adapter
\* threw, unwrapped (same class, same message), unless its message
\* contains 'context_length_exceeded' or 'maximum context length': then
\* the caller gets a ContextLengthExceeded with the fixed too-large
\* message in its place.
C3_Rethrown ==
  (/\ call.pc = "done"
   /\ call.adapter.tag = "err"
   /\ ~IsContextLengthExceeded(call.adapter.err)
   /\ ~IsUnparseable(call.adapter.err))
  => IF MentionsOverflow(call.adapter.err.msg)
     THEN call.result = Throw(ContextLengthExceededError(MsgTooLargeGeneric))
     ELSE call.result = Throw(call.adapter.err)

C3_Witness ==
  /\ call.pc = "done"
  /\ call.provider = NameOpenAI
  /\ call.response.status = 429
  /\ call.result.err = call.adapter.err
  /\ Includes(call.result.err.msg, BodyQuota)

\* C4: a call issues at most one request: one exactly when the credential
\* check passes and the provider is supported; while the request is out
\* it is the only one, and once it has failed or its response could not
\* be parsed the call is over with one error and still one request.
C4_OneRequest ==
  /\ call.requests \in {0, 1}
  /\ call.pc = "awaiting" => call.requests = 1
  /\ call.pc = "done" =>
       /\ call.requests = 1 <=>
            /\ call.provider \in SupportedProviders
            /\ call.provider = NameOllama \/ call.apiKey # << >>
       /\ (call.requests = 1 /\ (call.response.threw \/ call.response.status # 200))
            => call.result.tag = "err"
       /\ call.inner.tag = "err" => call.result.tag = "err"

C4_Witness ==
  /\ call.pc = "done"
  /\ call.requests = 1
  /\ call.response.status = 500
  /\ call.result.tag = "err"

(***************************************************************************)
(* Claims about the parsers (SpecParse).                                   *)
(***************************************************************************)

\* C5 as stated: parseTestQuestionsResponse returns, or fails with
\* UnparseableResponse, on every text.
C5_Original ==
  q.done => (q.result.tag = "ok" \/ IsUnparseable(q.result.err))

\* C5 as amended: on every text parseTestQuestionsResponse returns, or
\* fails with UnparseableResponse, or, for the empty text and only for it,
\* fails with the plain Error 'No content from LLM for test questions.'.
C5_ParseOrFail ==
  q.done =>
    IF RawOf(input) = << >>
    THEN q.result = Throw(Error(MsgNoContent))
    ELSE q.result.tag = "ok" \/ (q.result.tag = "err" /\ IsUnparseable(q.result.err))

C5_Witness ==
  /\ q.done
  /\ input.body = ObjCutArray /\ input.pre = << >> /\ input.suf = << >>
  /\ q.result.tag = "err" /\ IsUnparseable(q.result.err)

\* A well-formed JSON object: it starts with a brace and parses as a whole.
WellFormedObject(body) ==
  body # << >> /\ body[1] = "{" /\ JSONparse(body).ok

\* C6: for a well-formed object, the text made of the json fence, a line
\* feed, the object, a line feed and the closing fence, and the bare
\* object, both parse to the structured value of the object.
C6_FenceRoundTrip ==
  (/\ q.done
   /\ WellFormedObject(input.body)
   /\ \/ input.pre = FenceJson \o NL /\ input.suf = NL \o Fence
      \/ input.pre = << >> /\ input.suf = << >>)
  => q.result = Return(JSONparse(input.body).val)

C6_Witness ==
  /\ q.done
  /\ input.body = ObjNested
  /\ input.pre = FenceJson \o NL /\ input.suf = NL \o Fence
  /\ q.result.tag = "ok"

\* Nesting depth and string state after the first n characters of s.
RECURSIVE ScanTo(_, _)
ScanTo(s, n) ==
  IF n = 0 THEN [d |-> 0, str |-> FALSE]
  ELSE LET p == ScanTo(s, n - 1)
           c == s[n]
       IN  IF p.str THEN [p EXCEPT !.str = (c # "\"")]
           ELSE IF c = "\"" THEN [p EXCEPT !.str = TRUE]
           ELSE IF c \in {"{", "["} THEN [p EXCEPT !.d = p.d + 1]
           ELSE IF c \in {"}", "]"} THEN [p EXCEPT !.d = p.d - 1]
           ELSE p

\* Position i holds a closing delimiter that brings the depth back to 0.
IsTopLevelClose(s, i) ==
  s[i] \in {"}", "]"} /\ ~ScanTo(s, i - 1).str /\ ScanTo(s, i).d = 0

EndsBalanced(s) == s # << >> /\ IsTopLevelClose(s, Len(s))

Balanced(s) == ScanTo(s, Len(s)) = [d |-> 0, str |-> FALSE]

\* The repair as the claim words it: back to the last complete top-level
\* closing delimiter, then a closing delimiter if still unbalanced.
RepairAsStated(s) ==
  LET tops == {i \in 1..Len(s) : IsTopLevelClose(s, i)}
      cut == IF tops = {} THEN s
             ELSE SubSeq(s, 1, CHOOSE i \in tops : \A j \in tops : j <= i)
  IN  IF Balanced(cut) THEN cut ELSE cut \o <<"}">>

HasBrace(s) == \E i \in 1..Len(s) : s[i] = "}"

\* C7 as stated: when the stripped text does not end at a balanced closing
\* delimiter, the text handed to JSON.parse is the stripped text cut back
\* to its last complete top-level closer, with a closer appended if it is
\* still unbalanced.
C7_Original ==
  (q.done /\ StartsWith(q.stripped, <<"{">>) /\ ~EndsBalanced(q.stripped))
  => q.text = RepairAsStated(q.stripped)

\* C7 as amended: the text handed to JSON.parse is the stripped text cut
\* after the last closing brace it contains, at whatever depth that brace
\* is, and nothing is appended; only a stripped text with no closing brace
\* at all gets one closing brace appended.
C7_CutAtLastBrace ==
  (q.done /\ RawOf(input) # << >>)
  => IF HasBrace(q.stripped)
     THEN /\ Len(q.text) <= Len(q.stripped)
          /\ q.text = SubSeq(q.stripped, 1, Len(q.text))
          /\ q.text[Len(q.text)] = "}"
          /\ \A i \in (Len(q.text) + 1)..Len(q.stripped) : q.stripped[i] # "}"
     ELSE q.text = q.stripped \o <<"}">>

C7_Witness ==
  /\ q.done
  /\ input.body = ObjCutAfterInner /\ input.pre = << >> /\ input.suf = << >>
  /\ ~EndsBalanced(q.stripped)
  /\ Len(q.text) < Len(q.stripped)
  /\ ~Balanced(q.text)

\* C8: on every text that is not empty parseMarkingResponse strips the fences that
\* parseTestQuestionsResponse strips and leaves the same text, hands that
\* text to JSON.parse unrepaired, and fails with UnparseableResponse when
\* the stripped text does not parse.
C8_SameStripping ==
  (q.done /\ m.done /\ RawOf(input) # << >>)
  => /\ m.stripped = q.stripped
     /\ m.text = m.stripped
     /\ ~JSONparse(m.stripped).ok
          => (m.result.tag = "err" /\ IsUnparseable(m.result.err))

(***************************************************************************)
(* Claims about weight resolution (SpecWeight).                            *)
(***************************************************************************)

\* The question ends in (n), followed by nothing but white space.
EndsInMarks(question, n) ==
  \E i \in 1..(Len(question) - 2) :
    /\ question[i] = "(" /\ question[i + 1] = DigitChar(n) /\ question[i + 2] = ")"
    /\ \A j \in (i + 3)..Len(question) : IsSpace(question[j])

\* The weight the type field stands for.
TypeWeight(type) ==
  IF type = TypeLong THEN 2 ELSE IF type = TypeExtended THEN 3 ELSE 1

\* C9: a question that ends in (n) with n in 1..3, white space after it or
\* not, resolves to n whatever its type says.
C9_SuffixWins ==
  weight # 0 =>
    \A n \in {1, 2, 3} : EndsInMarks(pair.question, n) => weight = n

C9_Witness ==
  /\ weight = 2
  /\ pair.type = TypeExtended
  /\ EndsInMarks(pair.question, 2)
  /\ pair.question[Len(pair.question)] = "\n"

\* C10: a question that does not end in (1), (2) or (3) resolves by its
\* type: 2 for long, 3 for extended, 1 for short, for any other type and
\* for none.
C10_TypeFallback ==
  (weight # 0 /\ \A n \in {1, 2, 3} : ~EndsInMarks(pair.question, n))
  => weight = TypeWeight(pair.type)

C10_Witness ==
  /\ weight = 2
  /\ pair.type = TypeLong
  /\ EndsInMarks(pair.question, 4)

(***************************************************************************)
(* Claims about the grading prompt (Spec).                                 *)
(***************************************************************************)

\* The weight of a question as the specification resolves it: the digit of
\* a closing (1), (2) or (3), else the weight of the type.
StatedWeight(pr) ==
  IF \E n \in {1, 2, 3} : EndsInMarks(pr.question, n)
  THEN CHOOSE n \in {1, 2, 3} : EndsInMarks(pr.question, n)
  ELSE TypeWeight(pr.type)

\* The positions at which a line of the text starts.
LineStarts(s) == {1} \cup { i + 1 : i \in { j \in 1..Len(s) : s[j] = "\n" } }

\* The line that starts at position i, without its line feed.
LineAt(s, i) ==
  LET ends == { j \in i..Len(s) : s[j] = "\n" }
  IN  IF ends = {} THEN SliceFrom(s, i - 1)
      ELSE SubSeq(s, i, (CHOOSE j \in ends : \A k \in ends : j <= k) - 1)

\* The lines that open an entry: Q followed by a digit.
EntryHeads(s) ==
  { i \in LineStarts(s) : i + 1 <= Len(s) /\ s[i] = "Q" /\ IsDigit(s[i + 1]) }

\* The k-th smallest element of a set of positions.
Nth(S, k) == CHOOSE i \in S : Cardinality({ j \in S : j < i }) = k - 1

\* C11: the prompt of a grade call holds the whole source text before any
\* entry, and exactly one entry for each question, in input order: the
\* k-th entry is numbered k (from 1), carries the resolved weight of the
\* k-th question as maxMarks and its text, and is followed by a line with
\* its answer, or with the no-answer marker when the answer is empty.
C11_GradingPrompt ==
  (call.op = "grade" /\ call.requests > 0) =>
    LET prompt == call.userPrompt
        source == call.work.noteContent
        pairs == call.work.qnaPairs
        heads == EntryHeads(prompt)
    IN  /\ \E i \in 1..Len(prompt) :
             /\ SubSeq(prompt, i, i + Len(source) - 1) = source
             /\ \A h \in heads : i + Len(source) <= h
        /\ Cardinality(heads) = Len(pairs)
        /\ \A k \in 1..Len(pairs) :
             LET h == Nth(heads, k)
                 head == LineAt(prompt, h)
             IN  /\ head = <<"Q">> \o NumStr(k) \o <<" ","(","m","a","x","M","a","r","k","s","=">>
                           \o NumStr(StatedWeight(pairs[k])) \o <<")", ":", " ">>
                           \o pairs[k].question
                 /\ LineAt(prompt, h + Len(head) + 1)
                      = <<"A","n","s","w","e","r",":"," ">>
                        \o (IF pairs[k].answer = << >> THEN MsgNoAnswer
                            ELSE pairs[k].answer)

\* A grade call for an unanswered question followed by an answered one has
\* issued its request.
C11_Witness ==
  /\ call.op = "grade" /\ call.pc = "awaiting"
  /\ call.work.qnaPairs = <<QnaBlank, QnaAnswered>>
  /\ Includes(call.userPrompt, MsgNoAnswer)

(***************************************************************************)
(* Claims about calls in flight side by side (SpecConc).                   *)
(***************************************************************************)

\* C12: two generation calls whose adapters returned the same completion
\* text have the same outcome, whatever provider and model each of them
\* used: the same question set, or the same failure of the parser.
C12_SameTextSameResult ==
  \A s \in Slots, o \in Slots :
    (/\ calls[s].pc = "done" /\ calls[o].pc = "done"
     /\ calls[s].op = "generate" /\ calls[o].op = "generate"
     /\ calls[s].adapter.tag = "ok" /\ calls[o].adapter.tag = "ok"
     /\ calls[s].adapter.text = calls[o].adapter.text)
    => calls[s].result = calls[o].result

\* A call to OpenAI and a call to the local provider have both returned a
\* question set from the same completion text.
C12_Witness ==
  /\ calls[1].pc = "done" /\ calls[2].pc = "done"
  /\ calls[1].op = "generate" /\ calls[2].op = "generate"
  /\ calls[1].provider = NameOpenAI /\ calls[2].provider = NameOllama
  /\ calls[1].adapter.tag = "ok"
  /\ calls[1].adapter.text = TextQuestions /\ calls[2].adapter.text = TextQuestions
  /\ calls[1].result.tag = "ok"

(***************************************************************************)
(* Claims about the adapters' handling of a non-success status (Spec).     *)
(***************************************************************************)

\* The request of the call was answered with a status other than 200.
AnsweredWithFailure ==
  /\ call.pc = "done" /\ call.requests = 1
  /\ ~call.response.threw /\ call.response.status # 200

\* The head of a provider's HTTP error message, up to the status.
ErrHeadOf(provider) ==
  CASE provider = NameOpenAI -> ErrHeadOpenAI
    [] provider = NameAnthropic -> ErrHeadAnthropic
    [] provider = NameDeepSeek -> ErrHeadDeepSeek
    [] provider = NameGemini -> ErrHeadGemini
    [] provider = NameMistral -> ErrHeadMistral
    [] provider = NameOllama -> ErrHeadOllama

\* ProviderHttpError: a generic error whose message names the provider and
\* carries the status.
IsProviderHttpError(e, provider, status) ==
  /\ e.cls = "Error"
  /\ StartsWith(e.msg, ErrHeadOf(provider) \o NumStr(status) \o ApiErrorSep)

\* The context-overflow signature of each provider as first stated: an
\* error code for OpenAI and DeepSeek, an error type or a message substring
\* for Anthropic and Mistral, a message substring for Gemini, a substring
\* of the response text for Ollama.
StatedSignature(provider, r) ==
  CASE provider = NameOpenAI -> r.code = PhraseContextLengthExceeded
    [] provider = NameDeepSeek -> r.code = PhraseContextWindowExceeded
    [] provider = NameAnthropic ->
         r.etype = PhraseContextLengthExceeded \/ Includes(r.message, PhraseContextWindow)
    [] provider = NameMistral ->
         \/ r.etype = PhraseContextLengthExceeded
         \/ Includes(r.message, PhraseContext) \/ Includes(r.message, PhraseTokenLimit)
    [] provider = NameGemini ->
         Includes(r.message, PhraseContextLength) \/ Includes(r.message, PhraseTokenLimit)
    [] provider = NameOllama ->
         Includes(r.text, PhraseContextWindow) \/ Includes(r.text, PhraseContextLength)

\* The signature with DeepSeek's message substring added.
OverflowSignature(provider, r) ==
  \/ StatedSignature(provider, r)
  \/ provider = NameDeepSeek /\ Includes(r.message, PhraseContextLength)

\* The response text reads like a connection failure.
TextReadsUnreachable(r) ==
  Includes(r.text, PhraseFailedToFetch) \/ Includes(r.text, PhraseConnRefused)

C14_OverflowByMessage ==
  (call.pc = "done" /\ call.inner.tag = "err" /\ call.inner.err.cls = "Error") =>
    /\ call.result.tag = "err"
    /\ IsContextLengthExceeded(call.result.err)
         <=> \/ Includes(call.inner.err.msg, PhraseContextLengthExceeded)
             \/ Includes(call.inner.err.msg, PhraseMaximumContextLength)

\* A grading call to OpenAI was answered 400 with no error code and a
\* message that speaks of the maximum context length: the adapter failed
\* with a generic error and the caller got ContextLengthExceeded.
C14_Witness ==
  /\ call.pc = "done" /\ call.op = "grade"
  /\ call.provider = NameOpenAI
  /\ call.adapter.tag = "err" /\ call.adapter.err.cls = "Error"
  /\ Includes(call.adapter.err.msg, PhraseMaximumContextLength)
  /\ ~Includes(call.adapter.err.msg, PhraseContextLengthExceeded)
  /\ IsContextLengthExceeded(call.result.err)

(***************************************************************************)
(* Claims about the Ollama adapter (Spec).                                 *)
(***************************************************************************)

\* The server-unreachable error of the Ollama adapter for a base URL.
Unreachable(url) == Error(MsgOllamaConnectHead \o url \o MsgOllamaConnectTail)

\* C15: when the try block of the Ollama adapter raised an error, the
\* adapter fails with ContextLengthExceeded if that is what was raised,
\* else with the server-unreachable error naming the base URL in use if
\* the message contains 'Failed to fetch' or 'net::ERR_CONNECTION_REFUSED',
\* else with the very error that was raised.
C15_OllamaCatch ==
  (call.pc = "done" /\ call.requests = 1 /\ call.provider = NameOllama) =>
    LET raised == OllamaTry(call.model, call.response)
    IN  raised.tag = "err" =>
          /\ call.adapter.tag = "err"
          /\ IsContextLengthExceeded(raised.err) => call.adapter.err = raised.err
          /\ ~IsContextLengthExceeded(raised.err) =>
               IF \/ Includes(raised.err.msg, PhraseFailedToFetch)
                  \/ Includes(raised.err.msg, PhraseConnRefused)
               THEN /\ call.adapter.err = Unreachable(call.ollamaUrl)
                    /\ Includes(call.adapter.err.msg, call.ollamaUrl)
                    /\ call.ollamaUrl # << >>
               ELSE call.adapter.err = raised.err

\* The request to a configured Ollama server was refused and the adapter
\* failed with the server-unreachable error naming that server.
C15_Witness ==
  /\ call.pc = "done" /\ call.provider = NameOllama
  /\ call.response.threw /\ call.response.emsg = NetRefused
  /\ call.ollamaUrl = SomeUrl
  /\ call.adapter.err = Unreachable(SomeUrl)

(***************************************************************************)
(* Claims about interference between calls (SpecConc).                     *)
(***************************************************************************)

\* The arguments a call was invoked with, as the call keeps them.
ArgsOf(c) == <<c.op, c.provider, c.apiKey, c.model, c.ollamaUrl, c.work>>

\* The call as it ends when it runs with no other call around: invoked
\* with the same arguments and answered with the same response.
RunAlone(c) ==
  FinishCall(StartCall(c.op, c.provider, [p \in {c.provider} |-> c.apiKey],
                       [p \in {c.provider} |-> c.model], c.ollamaUrl, c.work),
             c.response)

\* C16: in every interleaving of the calls in flight, a step of one call
\* changes no other call; a call that awaits its response keeps the
\* arguments it was invoked with; and a call ends as it would have ended
\* alone with its own arguments and its own response.
C16_NoInterference ==
  [][ /\ Cardinality({ s \in Slots : calls'[s] # calls[s] }) <= 1
      /\ \A s \in Slots :
           /\ calls[s].pc = "awaiting" => ArgsOf(calls'[s]) = ArgsOf(calls[s])
           /\ (calls'[s].pc = "done" /\ calls'[s].requests = 1)
                => calls'[s] = RunAlone(calls'[s]) ]_vars

\* A call to OpenAI has failed on a 500 while a grading call to Anthropic,
\* invoked before that response arrived, still awaits its own.
C16_Witness ==
  /\ calls[1].pc = "done" /\ calls[1].provider = NameOpenAI
  /\ calls[1].response.status = 500
  /\ IsProviderHttpError(calls[1].result.err, NameOpenAI, 500)
  /\ calls[2].pc = "awaiting" /\ calls[2].op = "grade"
  /\ calls[2].provider = NameAnthropic

(***************************************************************************)
(* Claims about scoring (SpecMark).                                        *)
(***************************************************************************)

\* The sum of a field over the items of the array at the indices in K.
RECURSIVE SumAt(_, _, _)
SumAt(f, field, K) ==
  IF K = {} THEN 0
  ELSE LET k == CHOOSE k \in K : TRUE
       IN  f[k][field] + SumAt(f, field, K \ {k})

\* The grades whose number is the number of a question of the test.
InRange ==
  { k \in 1..Len(marking.feedbackArray) :
      marking.feedbackArray[k].questionNumber \in 1..marking.questions }

\* Of these, the last grade given to each question.
LastInRange ==
  { k \in InRange :
      \A j \in InRange :
        marking.feedbackArray[j].questionNumber = marking.feedbackArray[k].questionNumber
          => j <= k }

\* Every grade is for a question of the test and no question has two.
OneGradeEach ==
  /\ InRange = 1..Len(marking.feedbackArray)
  /\ LastInRange = InRange

\* The score is earned / possible * 100 exactly, and 0 when possible is 0.
IsExactPercentage(score, earned, possible) ==
  IF possible = 0 THEN score.n = 0
  ELSE score.n * possible = 100 * earned * score.d

\* The score is the tenth nearest to earned / possible * 100 (the larger
\* one of two that are equally near), and 0 when possible is 0.
IsPercentageInTenths(score, earned, possible) ==
  IF possible = 0 THEN score.n = 0
  ELSE \E tenths \in 0..(1000 * earned + 1) :
         /\ score.n * 10 = tenths * score.d
         /\ 2 * (1000 * earned - tenths * possible) <= possible
         /\ 2 * (1000 * earned - tenths * possible) > -possible

C18_SameAtBothSites ==
  (marking.view.done /\ marking.dash.done) =>
    /\ marking.view.score = marking.dash.score
    /\ marking.view.markResults = marking.dash.markResults

(***************************************************************************)
(* Claims about what the question parser accepts (SpecParse).              *)
(***************************************************************************)

\* C19: parseTestQuestionsResponse returns exactly when JSON.parse accepts
\* the text handed to it, and then returns the parsed value unchanged,
\* whatever it holds: an object whose list of questions is empty, or an
\* object with no list of questions at all, is returned, not rejected.
C19_NoValidation ==
  q.done =>
    LET parsed == JSONparse(q.text)
    IN  /\ q.result.tag = "ok" <=> parsed.ok
        /\ parsed.ok => q.result.val = parsed.val

\* A fenced question set whose list of questions is empty has been
\* returned with its empty list.
C19_Witness ==
  /\ q.done /\ q.result.tag = "ok"
  /\ input.body = ObjSmall /\ input.pre = FenceJson \o NL
  /\ q.result.val.t = "obj"
  /\ \E n \in 1..Len(q.result.val.v) :
       /\ q.result.val.v[n].k = <<"q">>
       /\ q.result.val.v[n].v.t = "arr" /\ q.result.val.v[n].v.v = << >>

(***************************************************************************)
(* Claims about the OpenAI request (SpecRequest).                          *)
(***************************************************************************)

\* The name starts with o1-, o3- or gpt-5.
NamedReasoning(model) ==
  \/ StartsWith(model, <<"o", "1", "-">>)
  \/ StartsWith(model, <<"o", "3", "-">>)
  \/ StartsWith(model, <<"g", "p", "t", "-", "5">>)

\* C20: for a model whose name starts with o1-, o3- or gpt-5 the budget
\* sent is the larger of four times maxTokens and 4000, sent as
\* max_completion_tokens, and so strictly larger than maxTokens; for any
\* other model it is maxTokens, sent as max_tokens.
C20_TokenBudget ==
  request.built =>
    IF NamedReasoning(request.model)
    THEN /\ request.body.tokenField = "max_completion_tokens"
         /\ request.body.tokens \in {4 * request.maxTokens, 4000}
         /\ request.body.tokens >= 4 * request.maxTokens
         /\ request.body.tokens >= 4000
         /\ request.body.tokens > request.maxTokens
    ELSE /\ request.body.tokenField = "max_tokens"
         /\ request.body.tokens = request.maxTokens

\* The request for o1-mini with the 500 tokens of question generation has
\* been built with the floor of 4000.
C20_Witness ==
  /\ request.built
  /\ request.model = ModelO1Mini /\ request.maxTokens = 500
  /\ request.body.tokens = 4000

\* The request holds one message, of role user, whose content is the
\* system text, an empty line and the user prompt.
MergedIntoUser(r) ==
  /\ Len(r.body.messages) = 1
  /\ r.body.messages[1].role = "user"
  /\ r.body.messages[1].content = r.systemMessage \o <<"\n", "\n">> \o r.userPrompt

\* The request holds a system message with the system text and then a
\* user message with the user prompt.
SystemThenUser(r) ==
  /\ Len(r.body.messages) = 2
  /\ r.body.messages[1].role = "system"
  /\ r.body.messages[1].content = r.systemMessage
  /\ r.body.messages[2].role = "user"
  /\ r.body.messages[2].content = r.userPrompt

\* The sub-variants without a system role: o1-preview and o1-mini.
NoSystemRole(model) ==
  /\ StartsWith(model, PrefixO1)
  /\ \/ Includes(model, <<"p","r","e","v","i","e","w">>)
     \/ Includes(model, <<"m","i","n","i">>)

\* C21: the request of callOpenAI holds a single user message with the
\* system text followed by the user prompt exactly for o1-preview and
\* o1-mini; for every other model (o3-mini, gpt-4o-mini, ...) it holds a
\* system message and a user message.
C21_MergeOnlyO1 ==
  request.built =>
    IF NoSystemRole(request.model)
    THEN MergedIntoUser(request)
    ELSE SystemThenUser(request)

(***************************************************************************)
(* Claims about the generation prompt (Spec).                              *)
(***************************************************************************)

\* The k-th line of a text.
LineNo(s, k) == LineAt(s, Nth(LineStarts(s), k))

\* C22: the prompt of a generate call is, line by line: the instruction
\* line and an empty line; then for the k-th note, in input order, a header
\* line naming its path, a line Content:, its whole content and an empty
\* line; then the closing instruction line.  The notes fix every line, so
\* equal notes give an equal prompt.
C22_FormatterLayout ==
  (call.op = "generate" /\ call.requests > 0) =>
    LET prompt == call.userPrompt
        notes == call.work.indexedNotes
    IN  /\ Cardinality(LineStarts(prompt)) = 3 + 4 * Len(notes)
        /\ LineNo(prompt, 1)
             = <<"G","e","n","e","r","a","t","e"," ","t","e","s","t"," ","q","u","e","s",
                 "t","i","o","n","s"," ","b","a","s","e","d"," ","o","n"," ","t","h","e",
                 " ","f","o","l","l","o","w","i","n","g"," ","n","o","t","e","s",".">>
        /\ LineNo(prompt, 2) = << >>
        /\ \A k \in 1..Len(notes) :
             /\ LineNo(prompt, 4 * k - 1)
                  = <<"#","#","#"," ","N","o","t","e",":"," ">> \o notes[k].filePath
             /\ LineNo(prompt, 4 * k) = <<"C","o","n","t","e","n","t",":">>
             /\ LineNo(prompt, 4 * k + 1) = notes[k].content
             /\ LineNo(prompt, 4 * k + 2) = << >>
        /\ LineNo(prompt, 3 + 4 * Len(notes))
             = <<"E","n","s","u","r","e"," ","t","h","a","t"," ","t","h","e"," ","t","e",
                 "s","t"," ","q","u","e","s","t","i","o","n","s"," ","a","r","e"," ","r",
                 "e","l","e","v","a","n","t"," ","t","o"," ","t","h","e"," ","c","o","n",
                 "t","e","n","t"," ","a","n","d"," ","t","e","s","t"," ","k","e","y"," ",
                 "c","o","n","c","e","p","t","s",".">>

\* A generate call for the note b/c.md followed by the note a.md has
\* issued its request.
C22_Witness ==
  /\ call.op = "generate" /\ call.pc = "awaiting"
  /\ call.work.indexedNotes = <<NoteSea, NoteSun>>
  /\ LineNo(call.userPrompt, 3) = <<"#","#","#"," ","N","o","t","e",":"," ">> \o NoteSea.filePath

(***************************************************************************)
(* Claims about bulk marking (SpecDashboard).                              *)
(***************************************************************************)

\* The text has a character that is not white space.
NonBlank(text) == \E k \in 1..Len(text) : ~IsSpace(text[k])

\* The test documents that hold at least one non-blank answer.
Answered(testDocuments) ==
  { path \in NotePaths :
      /\ testDocuments[path].exists
      /\ \E i \in DOMAIN testDocuments[path].answers :
           NonBlank(testDocuments[path].answers[i]) }

\* A grading call has been issued for the document of the path and is
\* awaited.
GradingIssued(d, path) ==
  d.marking[path].call.pc = "awaiting" /\ d.marking[path].call.requests = 1

Unmarked(doc) ==
  /\ DOMAIN doc.answers = {}
  /\ ~doc.score.has
  /\ \A k \in 1..Len(doc.markResults) : ~doc.markResults[k].set

\* C24: after handleResetButtonClick on a question document with a file
\* path, the test document of that path, in the plugin and in the data
\* file, holds no answers, no score and no per-question mark results.
C24_ResetUnmarks ==
  [][ handleResetButtonClick =>
        /\ Unmarked(plugin'.testDocuments[questionView.filePath])
        /\ Unmarked(plugin'.saved[questionView.filePath]) ]_vars

\* The document is as Reset leaves it: it has no answer and no score.
IsReset(doc) == doc.exists /\ DOMAIN doc.answers = {} /\ ~doc.score.has

\* The answers the call was issued with held an answer.
SentAnswer(c) == \E k \in 1..Len(c.work.qnaPairs) : c.work.qnaPairs[k].answer # << >>

\* C26: after Reset the document has no score until a marking request
\* issued after that Reset completes.  A marking call is in flight, issued
\* with an answer (Mark all tests issues none without one); when it
\* settles the document has no answer and no score, which only a Reset
\* since the call was issued brings about: the completion of that call of
\* Mark all tests or of Mark leaves the document without a score.
C26_NoScoreFromEarlierCall ==
  [][ /\ \A path \in NotePaths :
           /\ dashboard.marking[path].call.pc = "awaiting"
           /\ dashboard'.marking[path].call.pc = "done"
           /\ SentAnswer(dashboard.marking[path].call)
           /\ IsReset(plugin.testDocuments[path])
           => ~plugin'.testDocuments[path].score.has
      /\ /\ questionView.mark.call.pc = "awaiting"
         /\ questionView'.mark.call.pc # "awaiting"
         /\ SentAnswer(questionView.mark.call)
         /\ IsReset(plugin.testDocuments[questionView.filePath])
         => ~plugin'.testDocuments[questionView.filePath].score.has ]_vars

\* The Mark button of the open question document can be pressed for a
\* note of the index, with no marking of the view in flight.
MarkPressable ==
  /\ ShowsQuestions(questionView)
  /\ questionView.generatedTests.t = "arr"
  /\ Indexed(plugin.indexedNotes, questionView.filePath)
  /\ questionView.mark.call.pc # "awaiting"

\* C29: Mark of the question document gates on the credential as Mark all
\* tests and markTestAnswers do: pressed, it goes on to call
\* markTestAnswers exactly when Mark all tests passes its key check and
\* markTestAnswers its own; with ollama and no key stored it proceeds,
\* with a cloud provider and no key it stops.
C29_SameKeyGate ==
  LET settings == plugin.settings
      apiKey == getApiKey(settings.llmProvider, settings.apiKeys)
  IN  MarkPressable =>
        /\ DashboardKeyMissing(settings) <=> MissingKey(settings.llmProvider, apiKey)
        /\ ENABLED (handleMarkButtonClickStart /\ questionView'.mark.call.pc = "awaiting")
             <=> ~DashboardKeyMissing(settings)

(***************************************************************************)
(* Claims about the dashboard and the stored documents (SpecDashboard).    *)
(***************************************************************************)

\* C25: a test document is deleted only when its note is no longer a file
\* of the vault; whatever Create tests or Mark all tests do while a refresh
\* is rebuilding the index, the document of a note that is still in the
\* vault stays.
C25_DeletesOnlyStale ==
  [][ \A path \in NotePaths :
        plugin.testDocuments[path].exists /\ ~plugin'.testDocuments[path].exists
          => ~Indexed(vault, path) ]_vars

\* The document has a questions sequence and a description.
WellFormed(doc) == doc.questions.t = "arr" /\ doc.description.t = "str"

\* C27: every stored test document, in the plugin and in the data file,
\* has a questions sequence and a description; Create tests never stores a
\* completion that lacks the questions array.
C27_DocumentsWellFormed ==
  \A path \in NotePaths :
    /\ plugin.testDocuments[path].exists => WellFormed(plugin.testDocuments[path])
    /\ plugin.saved[path].exists => WellFormed(plugin.saved[path])

\* The task of createTests for the note settles in this step.
GenerationSettles(path) ==
  /\ dashboard.generation[path].call.pc = "awaiting"
  /\ dashboard'.generation[path].call.pc = "done"

\* The test document of a generation that returned res: its description
\* and its questions, no answers, no score, no mark results.
FreshDoc(res) ==
  [exists |-> TRUE,
   description |-> Prop(res, <<"d","e","s","c","r","i","p","t","i","o","n">>),
   questions |-> Prop(res, <<"q","u","e","s","t","i","o","n","s">>),
   answers |-> NoAnswers, score |-> NoScore, markResults |-> << >>]

\* C28: Create tests runs one generation task per selected note, all of
\* them started before any settles and each on its own.  In whatever order
\* they settle: a task settles alone; when its generation failed, every
\* test document, that of its note included, stays as it was; when it
\* succeeded, the document of its note becomes the returned description
\* and questions with empty answers and no score, and is in the data file;
\* the documents of the other notes and the other tasks are untouched.
C28_TasksIsolated ==
  [][ /\ \A path \in NotePaths :
           GenerationSettles(path) =>
             LET result == dashboard'.generation[path].call.result
             IN  /\ \A other \in NotePaths \ {path} :
                      /\ dashboard'.generation[other] = dashboard.generation[other]
                      /\ plugin'.testDocuments[other] = plugin.testDocuments[other]
                 /\ result.tag = "err" => plugin'.testDocuments = plugin.testDocuments
                 /\ result.tag = "ok" =>
                      /\ plugin'.testDocuments[path] = FreshDoc(result.val)
                      /\ plugin'.saved[path] = FreshDoc(result.val)
      /\ dashboard.create.pc # "running" /\ dashboard'.create.pc = "running" =>
           \A path \in dashboard'.create.boxes :
             Indexed(dashboard.pluginData, path)
               => dashboard'.generation[path].call.pc = "awaiting" ]_vars

\* Of one run of Create tests for both notes, the task of a.md has failed
\* and its answered document is kept, and the task of b/c.md has succeeded
\* and its document is the generated one.
C28_Witness ==
  /\ dashboard.create.pc = "running"
  /\ dashboard.generation[NoteSun.filePath].call.pc = "done"
  /\ dashboard.generation[NoteSun.filePath].call.result.tag = "err"
  /\ hasActualAnswers(plugin.testDocuments[NoteSun.filePath].answers)
  /\ dashboard.generation[NoteSea.filePath].call.pc = "done"
  /\ dashboard.generation[NoteSea.filePath].call.result.tag = "ok"
  /\ plugin.testDocuments[NoteSea.filePath] =
       FreshDoc(dashboard.generation[NoteSea.filePath].call.result.val)
  /\ plugin.testDocuments[NoteSea.filePath].questions.t = "arr"

\* C30: a dashboard has at most one index refresh in flight: handleRefresh
\* invoked while isRefreshing is set starts no second run, and
\* isRefreshing is set exactly while the one run is in flight, so it is
\* false once a refresh has finished, whether it succeeded or threw.
C30_OneRefreshInFlight ==
  /\ dashboard.refresh.running \in {0, 1}
  /\ dashboard.isRefreshing <=> (dashboard.refresh.running = 1)
  /\ dashboard.isRefreshing <=> (dashboard.refresh.pc # "idle")

\* A refresh has finished in the catch block: the read of the second file
\* failed, the index holds the first note alone, and isRefreshing is false.
C30_Witness ==
  /\ Len(vault) = 2 /\ plugin.indexedNotes = <<vault[1]>>
  /\ dashboard.refresh.pc = "idle" /\ dashboard.refresh.running = 0
  /\ ~dashboard.isRefreshing

====
